---- MODULE Spec2Model ----
(***************************************************************************)
(* Extraction / normalisation / deduplication pipeline of the PDF-to-CSV   *)
(* service: record assembly (services/document_processor.py), duplicate    *)
(* detection (services/duplicate_detector.py) and the background job that  *)
(* drives them (api/files.py).                                             *)
(*                                                                         *)
(* A Python str is a sequence of one-character strings; a Python dict is a *)
(* function whose domain is its set of keys, so an absent key is absent    *)
(* from the DOMAIN.                                                        *)
(***************************************************************************)
EXTENDS Integers, Sequences, FiniteSets, TLC

\* ------------------------------------------------------------------------
\* Bounds of the model
\* ------------------------------------------------------------------------

\* longest list of name / mobile / address entities of one document
MaxPerType == 3

\* most records of a batch handed to detect_duplicates directly
MaxBatch == 3

\* most calls of detect_duplicates on one batch
MaxCalls == 2

\* most files of one upload
MaxFiles == 3

\* greatest group_size tried (upload_files accepts 1..100)
MaxGroupSize == 3

\* ------------------------------------------------------------------------
\* Characters and the str methods the code uses
\* ------------------------------------------------------------------------

Digits == {"0", "1", "2", "3", "4", "5", "6", "7", "8", "9"}

LowerSeq == << "a", "b", "c", "d", "e", "f", "g", "h", "i", "j", "k", "l", "m",
               "n", "o", "p", "q", "r", "s", "t", "u", "v", "w", "x", "y", "z" >>

UpperSeq == << "A", "B", "C", "D", "E", "F", "G", "H", "I", "J", "K", "L", "M",
               "N", "O", "P", "Q", "R", "S", "T", "U", "V", "W", "X", "Y", "Z" >>

LowerLetters == { LowerSeq[i] : i \in 1..26 }

UpperLetters == { UpperSeq[i] : i \in 1..26 }

\* [A-Za-z]
LatinLetters == LowerLetters \cup UpperLetters

\* the characters str.split() and str.strip() treat as whitespace
Whitespace == {" ", "\t", "\n"}

\* str.lower() on one character
LowerChar(c) ==
    IF c \in UpperLetters
    THEN LowerSeq[CHOOSE i \in 1..26 : UpperSeq[i] = c]
    ELSE c

\* str.lower()
Lower(s) == [i \in 1..Len(s) |-> LowerChar(s[i])]

\* number of leading characters of s that lie in cs
RECURSIVE LeadingIn(_, _)
LeadingIn(s, cs) ==
    IF s = << >> \/ Head(s) \notin cs THEN 0 ELSE 1 + LeadingIn(Tail(s), cs)

\* number of trailing characters of s that lie in cs
RECURSIVE TrailingIn(_, _)
TrailingIn(s, cs) ==
    IF s = << >> \/ s[Len(s)] \notin cs
    THEN 0
    ELSE 1 + TrailingIn(SubSeq(s, 1, Len(s) - 1), cs)

\* str.strip(chars)
StripChars(s, cs) ==
    LET a == LeadingIn(s, cs)
    IN  IF a = Len(s) THEN << >> ELSE SubSeq(s, a + 1, Len(s) - TrailingIn(s, cs))

\* str.strip()
Strip(s) == StripChars(s, Whitespace)

\* the characters of s that lie in cs, in order: re.sub of the complement by ''
Keep(s, cs) == SelectSeq(s, LAMBDA c : c \in cs)

\* re.search(r'\d', s)
HasDigit(s) == \E i \in 1..Len(s) : s[i] \in Digits

\* sub in s
Contains(s, sub) ==
    \E i \in 0..(Len(s) - Len(sub)) : SubSeq(s, i + 1, i + Len(sub)) = sub

\* s.startswith(p)
StartsWith(s, p) == Len(p) <= Len(s) /\ SubSeq(s, 1, Len(p)) = p

\* s.endswith(p)
EndsWith(s, p) == Len(p) <= Len(s) /\ SubSeq(s, Len(s) - Len(p) + 1, Len(s)) = p

\* s without its first n characters
Drop(s, n) == SubSeq(s, n + 1, Len(s))

\* the characters of s
Chars(s) == {s[i] : i \in 1..Len(s)}

\* str.split(): the maximal runs of non-whitespace characters
RECURSIVE SplitWs(_)
RECURSIVE TokensFrom(_)

\* the first token of rest, which has n characters, and the tokens after it
CutToken(rest, n) == << SubSeq(rest, 1, n) >> \o SplitWs(Drop(rest, n))

\* the tokens of a string that starts with no whitespace
TokensFrom(rest) ==
    IF rest = << >> THEN << >>
    ELSE CutToken(rest, LeadingIn(rest, Chars(rest) \ Whitespace))

SplitWs(s) == TokensFrom(Drop(s, LeadingIn(s, Whitespace)))

\* " ".join(tokens)
RECURSIVE JoinSp(_)
JoinSp(tokens) ==
    IF tokens = << >> THEN << >>
    ELSE IF Len(tokens) = 1 THEN tokens[1]
    ELSE tokens[1] \o << " " >> \o JoinSp(Tail(tokens))

\* ------------------------------------------------------------------------
\* DocumentProcessor._parse_name
\* ------------------------------------------------------------------------

\* the characters of [;,/\\]
Separators == {";", ",", "/", "\\"}

\* re.split(r'[;,/\\]\s*', name): cut at every separator, the whitespace that
\* follows a separator belonging to the cut
RECURSIVE SplitSeparators(_)

\* s cut at its first separator, which follows n characters
CutSegment(s, n) ==
    IF n = Len(s)
    THEN << s >>
    ELSE << SubSeq(s, 1, n) >>
         \o SplitSeparators(Drop(s, n + 1 + LeadingIn(Drop(s, n + 1), Whitespace)))

SplitSeparators(s) == CutSegment(s, LeadingIn(s, Chars(s) \ Separators))

\* latin_score: len(re.findall(r'[A-Za-z]', s))
latin_score(s) == Len(Keep(s, LatinLetters))

\* the key without len(s): a fault C19 detects
KeyGreater_latin_only(a, b) == latin_score(a) > latin_score(b)

\* the key (latin_score(s), len(s)) of a is greater than that of b
KeyGreater(a, b) ==
    \/ latin_score(a) > latin_score(b)
    \/ latin_score(a) = latin_score(b) /\ Len(a) > Len(b)

\* max(parts, key=...): the first element no other element exceeds
RECURSIVE BestSegment(_)

\* the first of two segments unless the later one has the greater key
Better(first, later) == IF KeyGreater(later, first) THEN later ELSE first

BestSegment(parts) ==
    IF Len(parts) = 1
    THEN parts[1]
    ELSE Better(parts[1], BestSegment(Tail(parts)))

\* the characters tok.strip(...) of line 268 removes; the backquote, which no
\* TLA+ string can hold, is the atom "backquote"
JunkChars ==
    {" ", ",", ".", ";", ":", "-", "_", "(", ")", "[", "]", "{", "}", "\"", "'",
     "backquote"}

\* lines 269-273, on the stripped token
JunkStripped(stripped) ==
    \/ stripped = << >>
    \/ Chars(stripped) \cap (LatinLetters \cup Digits) = {}

is_junk_token(tok) == JunkStripped(StripChars(tok, JunkChars))

\* while tokens and is_junk_token(tokens[0]): tokens.pop(0)
RECURSIVE DropLeadingJunk(_)
DropLeadingJunk(tokens) ==
    IF tokens # << >> /\ is_junk_token(tokens[1])
    THEN DropLeadingJunk(Tail(tokens))
    ELSE tokens

address_words ==
    << << "s", "t", "r", "e", "e", "t" >>,
       << "a", "v", "e", "n", "u", "e" >>,
       << "r", "o", "a", "d" >>,
       << "d", "r", "i", "v", "e" >>,
       << "l", "a", "n", "e" >>,
       << "c", "o", "u", "r", "t" >>,
       << "p", "l", "a", "c", "e" >>,
       << "w", "a", "y" >>,
       << "c", "r", "e", "s", "c", "e", "n", "t" >>,
       << "c", "l", "o", "s", "e" >>,
       << "t", "e", "r", "r", "a", "c", "e" >>,
       << "p", "a", "r", "a", "d", "e" >>,
       << "b", "o", "u", "l", "e", "v", "a", "r", "d" >>,
       << "q", "l", "d" >>,
       << "n", "s", "w" >>,
       << "v", "i", "c" >>,
       << "w", "a" >>,
       << "s", "a" >>,
       << "t", "a", "s" >>,
       << "n", "t" >>,
       << "a", "c", "t" >> >>

\* the blacklist test on substrings instead of whole words: a fault C18 detects
WordHits_substring(name_lower, word) == Contains(name_lower, word)

\* the blacklist test of one word against the lowercased name
WordHits(name_lower, word) ==
    \/ Contains(<< " " >> \o name_lower \o << " " >>, << " " >> \o word \o << " " >>)
    \/ StartsWith(name_lower, word \o << " " >>)
    \/ EndsWith(name_lower, << " " >> \o word)

Blacklisted(name) ==
    \E k \in 1..Len(address_words) : WordHits(Lower(name), address_words[k])

\* lines 262-263: the best segment replaces the name
AdoptBest(name, best) ==
    IF latin_score(best) >= 1 \/ Len(SplitWs(best)) >= 2 THEN Strip(best) ELSE name

\* lines 257-263
PickSegment(name, parts) ==
    IF Len(parts) > 1 THEN AdoptBest(name, BestSegment(parts)) ELSE name

\* the segment choice: lines 255-263
ChooseSegment(name) == PickSegment(name, SplitSeparators(name))

\* the rejected result ("", "")
NoName == << << >>, << >> >>

\* CheckedName without the test of lines 307-308: a fault C17 detects
CheckedName_digits_only(first_name, last_name) ==
    IF HasDigit(first_name) \/ HasDigit(last_name) THEN NoName
    ELSE << first_name, last_name >>

\* lines 302-310
CheckedName(first_name, last_name) ==
    IF HasDigit(first_name) \/ HasDigit(last_name) THEN NoName
    ELSE IF Len(Keep(first_name, LatinLetters)) < 2 THEN NoName
    ELSE << first_name, last_name >>

\* lines 295-310
SplitName(name_parts) ==
    IF Len(name_parts) < 2 THEN NoName
    ELSE CheckedName(Strip(name_parts[1]), Strip(JoinSp(Tail(name_parts))))

\* lines 279-310, on the working name
ParseWorkingName(name) ==
    IF name = << >> THEN NoName
    ELSE IF HasDigit(name) THEN NoName
    ELSE IF Blacklisted(name) THEN NoName
    ELSE SplitName(SplitWs(name))

\* lines 255-278: the working name
WorkingName(name) == Strip(JoinSp(DropLeadingJunk(SplitWs(ChooseSegment(name)))))

\* _parse_name(full_name): << first_name, last_name >>, or NoName
_parse_name(full_name) ==
    IF Strip(full_name) = << >> THEN NoName
    ELSE ParseWorkingName(WorkingName(Strip(full_name)))

\* ------------------------------------------------------------------------
\* DocumentProcessor._clean_phone_number
\* ------------------------------------------------------------------------

\* the number of digits a phone number must have
PhoneDigits == 10

\* TenDigits accepting more than 10 digits: a fault C14 detects
TenDigits_or_more(digits) == IF Len(digits) >= PhoneDigits THEN digits ELSE << >>

\* lines 323-327
TenDigits(digits) == IF Len(digits) = PhoneDigits THEN digits ELSE << >>

_clean_phone_number(phone) ==
    IF phone = << >> THEN << >> ELSE TenDigits(Keep(phone, Digits))

\* ------------------------------------------------------------------------
\* DocumentProcessor._group_entities_to_records
\* ------------------------------------------------------------------------

\* dict.get(key, ''): the value of an str-valued key, '' when the key is absent
Get(d, key) == IF key \in DOMAIN d THEN d[key] ELSE << >>

\* [e['value'] for e in entities if e['type'] == t]
ValuesOfType(entities, t) ==
    [i \in 1..Len(SelectSeq(entities, LAMBDA e : e.type = t)) |->
        SelectSeq(entities, LAMBDA e : e.type = t)[i].value]

\* the record key each entity type fills (lines 155-168)
FieldOfType ==
    [name |-> "name", mobile |-> "mobile", address |-> "address", email |-> "email",
     landline |-> "landline", dateofbirth |-> "date_of_birth",
     lastseen |-> "last_seen_date"]

EntityTypes == DOMAIN FieldOfType

\* the greatest element of a non-empty set of numbers
Max(S) == CHOOSE x \in S : \A y \in S : y <= x

\* max(field_counts) if any(field_counts) else 0
max_count(entities) == Max({Len(ValuesOfType(entities, t)) : t \in EntityTypes})

\* Candidate reusing the last mobile for an index past the mobiles: a fault C7
\* detects
Candidate_fill_mobile(entities, i) ==
    [k \in {FieldOfType[t] : t \in {u \in EntityTypes :
                \/ i <= Len(ValuesOfType(entities, u))
                \/ u = "mobile" /\ Len(ValuesOfType(entities, u)) > 0}} |->
        LET values == ValuesOfType(entities, CHOOSE t \in EntityTypes : FieldOfType[t] = k)
        IN  IF i <= Len(values) THEN values[i] ELSE values[Len(values)]]

\* the record built at index i (0-based in the code, 1-based here)
Candidate(entities, i) ==
    [k \in {FieldOfType[t] : t \in {u \in EntityTypes : i <= Len(ValuesOfType(entities, u))}} |->
        ValuesOfType(entities, CHOOSE t \in EntityTypes : FieldOfType[t] = k)[i]]

_group_entities_to_records(entities) ==
    SelectSeq([i \in 1..max_count(entities) |-> Candidate(entities, i)],
              LAMBDA record : Get(record, "name") # << >>)

\* ------------------------------------------------------------------------
\* DocumentProcessor._clean_and_validate_records
\* ------------------------------------------------------------------------

\* s.split(c)[-1]: what follows the last c of s (all of s when it holds no c)
AfterLast(s, c) ==
    IF c \notin Chars(s) THEN s ELSE Drop(s, Max({i \in 1..Len(s) : s[i] = c}))

\* email_clean looking for the '.' in the whole email: a fault C16 detects
email_clean_dot_anywhere(email) ==
    IF email # << >> /\ Contains(email, << "@" >>) /\ Contains(email, << "." >>)
    THEN Strip(Lower(email))
    ELSE << >>

\* lines 209-212
email_clean(email) ==
    IF email # << >> /\ Contains(email, << "@" >>) /\ Contains(AfterLast(email, "@"), << "." >>)
    THEN Strip(Lower(email))
    ELSE << >>

\* the least length of an address
MinAddressLen == 15

\* the prefix of an address that must hold a digit
AddressDigitPrefix == 10

\* address_clean looking for the digit in the whole address: a fault C15 detects
address_clean_digit_anywhere(address) ==
    IF address # << >>
    THEN IF Len(Strip(address)) < MinAddressLen THEN << >>
         ELSE IF ~ HasDigit(Strip(address)) THEN << >>
         ELSE address
    ELSE address

\* address_clean without the digit test of lines 221-223: a fault C1 detects
address_clean_length_only(address) ==
    IF address # << >>
    THEN IF Len(Strip(address)) < MinAddressLen THEN << >> ELSE address
    ELSE address

\* lines 214-223
address_clean(address) ==
    IF address # << >>
    THEN IF Len(Strip(address)) < MinAddressLen THEN << >>
         ELSE IF ~ HasDigit(SubSeq(Strip(address), 1, AddressDigitPrefix)) THEN << >>
         ELSE address
    ELSE address

\* confidence_score 0.8, as the fraction 8/10
DefaultConfidence == << 8, 10 >>

\* the dict of lines 230-240
clean_record(first_name, last_name, mobile, landline, address, email, dob, last_seen) ==
    [first_name |-> first_name, last_name |-> last_name, mobile |-> mobile,
     landline |-> landline, address |-> address, email |-> email,
     date_of_birth |-> dob, last_seen_date |-> last_seen,
     confidence_score |-> DefaultConfidence]

\* CleanValidated skipping a record without a valid landline: a fault C8 detects
CleanValidated_landline_required(parsed, mobile_clean, landline_clean, email, address, dob, last_seen) ==
    IF parsed[1] = << >> \/ parsed[2] = << >> THEN << >>
    ELSE IF mobile_clean = << >> THEN << >>
    ELSE IF address = << >> THEN << >>
    ELSE IF landline_clean = << >> THEN << >>
    ELSE << clean_record(parsed[1], parsed[2], mobile_clean, landline_clean, address,
                         email, dob, last_seen) >>

\* lines 197-242: the clean record of the validated fields, or the skip
CleanValidated(parsed, mobile_clean, landline_clean, email, address, dob, last_seen) ==
    IF parsed[1] = << >> \/ parsed[2] = << >> THEN << >>
    ELSE IF mobile_clean = << >> THEN << >>
    ELSE IF address = << >> THEN << >>
    ELSE << clean_record(parsed[1], parsed[2], mobile_clean, landline_clean, address,
                         email, dob, last_seen) >>

\* lines 190-242, on the stripped fields
CleanFields(name, mobile, address, email, landline, dob, last_seen) ==
    IF name = << >> THEN << >>
    ELSE CleanValidated(_parse_name(name), _clean_phone_number(mobile),
                        _clean_phone_number(landline), email_clean(email),
                        address_clean(address), dob, last_seen)

\* one turn of the loop of lines 180-242: << the clean record >>, or << >> when
\* the record is skipped
CleanOne(record) ==
    CleanFields(Strip(Get(record, "name")), Strip(Get(record, "mobile")),
                Strip(Get(record, "address")), Strip(Get(record, "email")),
                Strip(Get(record, "landline")), Strip(Get(record, "date_of_birth")),
                Strip(Get(record, "last_seen_date")))

RECURSIVE _clean_and_validate_records(_)
_clean_and_validate_records(records) ==
    IF records = << >> THEN << >>
    ELSE CleanOne(Head(records)) \o _clean_and_validate_records(Tail(records))

\* the assembly stage: lines 47-51 of process_file
Assemble(entities) == _clean_and_validate_records(_group_entities_to_records(entities))

\* ------------------------------------------------------------------------
\* DuplicateDetector.detect_duplicates
\* ------------------------------------------------------------------------

\* self.mobile_pattern: ^04\d{8}$
mobile_pattern_match(s) ==
    /\ Len(s) = 10
    /\ s[1] = "0"
    /\ s[2] = "4"
    /\ \A i \in 3..10 : s[i] \in Digits

_is_valid_mobile(mobile) ==
    IF mobile = << >> THEN FALSE
    ELSE mobile_pattern_match(Keep(mobile, Digits))

\* the test of line 27: the record joins a group
Participates(record) ==
    Get(record, "mobile") # << >> /\ _is_valid_mobile(Get(record, "mobile"))

\* mobile_groups[mobile] of lines 22-28, as the indices of its records in input order
mobile_groups(records) ==
    [mobile \in {records[i].mobile : i \in {j \in 1..Len(records) : Participates(records[j])}} |->
        {i \in 1..Len(records) : Participates(records[i]) /\ records[i].mobile = mobile}]

\* the least element of a non-empty set of numbers
Min(S) == CHOOSE x \in S : \A y \in S : x <= y

\* d[key] = value on a dict
SetKey(d, key, value) == (key :> value) @@ d

\* MarkInGroup without the else branch of lines 38-39: a fault C2 detects
MarkInGroup_no_canonical(record, i, group) ==
    IF i # Min(group) THEN SetKey(record, "is_duplicate", TRUE) ELSE record

\* lines 34-39: what the marking loop writes to the record at index i of a group
MarkInGroup(record, i, group) ==
    IF i # Min(group)
    THEN SetKey(record, "is_duplicate", TRUE)
    ELSE SetKey(record, "is_duplicate", FALSE)

\* MarkGroups clearing the flag of every record outside a group of two or
\* more: a fault C10 detects
MarkGroups_reset_others(records, groups) ==
    [i \in 1..Len(records) |->
        IF Participates(records[i]) /\ Cardinality(groups[records[i].mobile]) > 1
        THEN MarkInGroup(records[i], i, groups[records[i].mobile])
        ELSE SetKey(records[i], "is_duplicate", FALSE)]

\* the records after lines 31-39
MarkGroups(records, groups) ==
    [i \in 1..Len(records) |->
        IF Participates(records[i]) /\ Cardinality(groups[records[i].mobile]) > 1
        THEN MarkInGroup(records[i], i, groups[records[i].mobile])
        ELSE records[i]]

MarkDuplicates(records) == MarkGroups(records, mobile_groups(records))

\* MarkedTrueIn counting the first record of a group as well: a fault C28 detects
MarkedTrueIn_all_members(records, groups) ==
    {i \in 1..Len(records) :
        /\ Participates(records[i])
        /\ Cardinality(groups[records[i].mobile]) > 1}

\* the indices at which line 36 runs
MarkedTrueIn(records, groups) ==
    {i \in 1..Len(records) :
        /\ Participates(records[i])
        /\ Cardinality(groups[records[i].mobile]) > 1
        /\ i # Min(groups[records[i].mobile])}

MarkedTrue(records) == MarkedTrueIn(records, mobile_groups(records))

\* a count of the newly flagged records only: a fault C6 detects
duplicate_count_of_new(records) ==
    Cardinality({i \in MarkedTrue(records) :
                    ~ ("is_duplicate" \in DOMAIN records[i] /\ records[i].is_duplicate)})

\* the value detect_duplicates returns: one increment per run of line 37
duplicate_count_of(records) == Cardinality(MarkedTrue(records))

\* detect_duplicates(records): the list after the call and the returned count
detect_duplicates(records) ==
    [records |-> MarkDuplicates(records), count |-> duplicate_count_of(records)]

\* ------------------------------------------------------------------------
\* DuplicateDetector.get_duplicate_groups and resolve_duplicates
\* ------------------------------------------------------------------------

\* the k-th element, in increasing order, of a set of indices
IndexAt(S, k) == CHOOSE x \in S : Cardinality({y \in S : y < x}) = k - 1

\* the dict of lines 73-77 for the group whose records are at the indices group
duplicate_group_of(records, mobile, group) ==
    [mobile_number |-> mobile,
     record_count |-> Cardinality(group),
     records |-> [n \in 1..Cardinality(group) |-> records[IndexAt(group, n)]]]

\* GroupHeads without the test of line 72: a fault C13 detects
GroupHeads_any_size(records, groups) ==
    {i \in 1..Len(records) :
        /\ Participates(records[i])
        /\ i = Min(groups[records[i].mobile])}

\* the indices that open a group of more than one record: mobile_groups keeps
\* its keys in the order of their first record
GroupHeads(records, groups) ==
    {i \in 1..Len(records) :
        /\ Participates(records[i])
        /\ Cardinality(groups[records[i].mobile]) > 1
        /\ i = Min(groups[records[i].mobile])}

\* lines 70-79, given the mobile_groups of lines 62-67
DuplicateGroupsIn(records, groups, heads) ==
    [k \in 1..Cardinality(heads) |->
        duplicate_group_of(records, records[IndexAt(heads, k)].mobile,
                           groups[records[IndexAt(heads, k)].mobile])]

DuplicateGroupsOf(records, groups) ==
    DuplicateGroupsIn(records, groups, GroupHeads(records, groups))

\* get_duplicate_groups(records): the returned list; the records are not written
get_duplicate_groups(records) == DuplicateGroupsOf(records, mobile_groups(records))

\* record.get('id') == keep_record_id
HasId(record, keep_record_id) == "id" \in DOMAIN record /\ record.id = keep_record_id

\* lines 102-110: the flags written once the record to keep is found at index keep
ResolveMarks(records, keep_record_id, keep) ==
    [i \in 1..Len(records) |->
        IF ~ HasId(records[i], keep_record_id)
        THEN SetKey(records[i], "is_duplicate", TRUE)
        ELSE IF i = keep THEN SetKey(records[i], "is_duplicate", FALSE)
        ELSE records[i]]

\* ResolveIn marking the records before it looks for the one to keep: a fault
\* C12 detects
ResolveIn_mark_first(records, keep_record_id, matches) ==
    IF matches = {}
    THEN [ok |-> FALSE, records |-> ResolveMarks(records, keep_record_id, 0)]
    ELSE [ok |-> TRUE, records |-> ResolveMarks(records, keep_record_id, Min(matches))]

\* lines 92-110: the search of the record to keep, then the marking
ResolveIn(records, keep_record_id, matches) ==
    IF matches = {}
    THEN [ok |-> FALSE, records |-> records]
    ELSE [ok |-> TRUE, records |-> ResolveMarks(records, keep_record_id, Min(matches))]

\* resolve_duplicates(duplicate_group, keep_record_id): the returned value and
\* the records of the group after the call
resolve_duplicates(duplicate_group, keep_record_id) ==
    IF Get(duplicate_group, "records") = << >>
    THEN [ok |-> FALSE, records |-> << >>]
    ELSE ResolveIn(duplicate_group.records, keep_record_id,
                   {i \in 1..Len(duplicate_group.records) :
                       HasId(duplicate_group.records[i], keep_record_id)})

\* ------------------------------------------------------------------------
\* A resolved group seen from the batch
\* ------------------------------------------------------------------------

\* the record of the group with this id
WithId(group_records, id) ==
    group_records[CHOOSE k \in 1..Len(group_records) : group_records[k].id = id]

\* The dicts of a group returned by get_duplicate_groups are the dicts of the
\* batch (line 28 and line 67 append the record itself), so what
\* resolve_duplicates writes on the group is written on the batch.
SharedWith(records, group_records) ==
    [i \in 1..Len(records) |->
        IF \E k \in 1..Len(group_records) : group_records[k].id = records[i].id
        THEN WithId(group_records, records[i].id)
        ELSE records[i]]

\* ------------------------------------------------------------------------
\* DuplicateDetector._string_similarity and _calculate_similarity
\* ------------------------------------------------------------------------

\* The values of score, total_weight and of the similarities are fractions
\* << numerator, denominator >> in lowest terms: the real numbers the float
\* operations of lines 143-182 and 210 approximate.

RECURSIVE GCD(_, _)
GCD(a, b) == IF b = 0 THEN a ELSE GCD(b, a % b)

\* n / d in lowest terms
Frac(n, d) == << n \div GCD(n, d), d \div GCD(n, d) >>

FracAdd(x, y) == Frac(x[1] * y[2] + y[1] * x[2], x[2] * y[2])

FracMul(x, y) == Frac(x[1] * y[1], x[2] * y[2])

FracDiv(x, y) == Frac(x[1] * y[2], x[2] * y[1])

Zero == << 0, 1 >>

One == << 1, 1 >>

\* set(str1.split())
WordSet(str1) == { SplitWs(str1)[k] : k \in 1..Len(SplitWs(str1)) }

\* lines 199-210, on the two word sets
Jaccard(words1, words2) ==
    IF words1 = {} /\ words2 = {} THEN One
    ELSE IF words1 = {} \/ words2 = {} THEN Zero
    ELSE Frac(Cardinality(words1 \cap words2), Cardinality(words1 \cup words2))

\* _string_similarity(str1, str2)
_string_similarity(str1, str2) ==
    IF str1 = << >> \/ str2 = << >> THEN Zero
    ELSE Jaccard(WordSet(str1), WordSet(str2))

\* the weights of lines 151, 159, 167 and 175
MobileWeight == << 4, 10 >>

NameWeight == << 3, 10 >>

AddressWeight == << 2, 10 >>

EmailWeight == << 1, 10 >>

\* f"{record.get('first_name', '')} {record.get('last_name', '')}".strip().lower()
FullNameOf(record) ==
    Lower(Strip(Get(record, "first_name") \o << " " >> \o Get(record, "last_name")))

\* record.get(field, '').strip().lower()
StrippedLower(record, field) == Lower(Strip(Get(record, field)))

\* what a field adds to score and to total_weight
Part(score, weight) == [score |-> score, total_weight |-> weight]

NoPart == Part(Zero, Zero)

\* lines 147-152 and 172-177: a field compared for equality
ExactPart(value1, value2, weight) ==
    IF value1 # << >> /\ value2 # << >>
    THEN Part(IF value1 = value2 THEN FracMul(One, weight) ELSE Zero, weight)
    ELSE NoPart

\* lines 155-161 and 164-169: a field compared by its words
WordsPart(value1, value2, weight) ==
    IF value1 # << >> /\ value2 # << >>
    THEN Part(FracMul(_string_similarity(value1, value2), weight), weight)
    ELSE NoPart

\* score and total_weight after one more field
AddPart(sum, part) ==
    Part(FracAdd(sum.score, part.score), FracAdd(sum.total_weight, part.total_weight))

\* the score without the division of line 181: a fault C20 detects
Normalize_not_divided(sum) == sum.score

\* lines 179-183
Normalize(sum) ==
    IF sum.total_weight[1] > 0 THEN FracDiv(sum.score, sum.total_weight) ELSE Zero

\* _calculate_similarity(record1, record2)
_calculate_similarity(record1, record2) ==
    Normalize(
        AddPart(AddPart(AddPart(AddPart(NoPart,
            ExactPart(Get(record1, "mobile"), Get(record2, "mobile"), MobileWeight)),
            WordsPart(FullNameOf(record1), FullNameOf(record2), NameWeight)),
            WordsPart(StrippedLower(record1, "address"), StrippedLower(record2, "address"),
                      AddressWeight)),
            ExactPart(StrippedLower(record1, "email"), StrippedLower(record2, "email"),
                      EmailWeight)))

\* ------------------------------------------------------------------------
\* DuplicateDetector.get_similar_records
\* ------------------------------------------------------------------------

\* record.get('id'): << id >>, or << >> for None
IdOf(record) == IF "id" \in DOMAIN record THEN << record.id >> ELSE << >>

\* x >= y on fractions
FracGE(x, y) == x[1] * y[2] >= y[1] * x[2]

\* lines 127-130: the entry of one record
SimilarEntry(other_record, similarity_score) ==
    [record |-> other_record, similarity_score |-> similarity_score]

\* lines 125-130: the entry is kept when its score reaches the threshold
KeptEntry(entry, threshold) ==
    IF FracGE(entry.similarity_score, threshold) THEN << entry >> ELSE << >>

\* line 122: other_record.get('id') == record.get('id')
SameRecord(record, other_record) == IdOf(other_record) = IdOf(record)

\* lines 122-130: what one record of the pool adds to similar_records
SimilarOf(record, other_record, threshold) ==
    IF SameRecord(record, other_record) THEN << >>
    ELSE KeptEntry(SimilarEntry(other_record, _calculate_similarity(record, other_record)),
                   threshold)

\* the loop of lines 121-130
RECURSIVE SimilarIn(_, _, _)
SimilarIn(record, all_records, threshold) ==
    IF all_records = << >> THEN << >>
    ELSE SimilarOf(record, Head(all_records), threshold)
         \o SimilarIn(record, Tail(all_records), threshold)

\* entry put after the first n entries of sorted
InsertAt(sorted, entry, n) ==
    SubSeq(sorted, 1, n) \o << entry >> \o SubSeq(sorted, n + 1, Len(sorted))

\* entry put after the entries whose score is not below its own
InsertByScore(sorted, entry) ==
    InsertAt(sorted, entry,
             Cardinality({ k \in 1..Len(sorted) :
                             FracGE(sorted[k].similarity_score, entry.similarity_score) }))

\* similar_records.sort(key=lambda x: x['similarity_score'], reverse=True):
\* a stable sort, entries of equal score keep their order
RECURSIVE SortByScore(_)
SortByScore(similar_records) ==
    IF similar_records = << >> THEN << >>
    ELSE InsertByScore(SortByScore(SubSeq(similar_records, 1, Len(similar_records) - 1)),
                       similar_records[Len(similar_records)])

\* get_similar_records(record, all_records, threshold)
get_similar_records(record, all_records, threshold) ==
    SortByScore(SimilarIn(record, all_records, threshold))

\* ------------------------------------------------------------------------
\* RecordService.resolve_duplicates (services/record_service.py) on the
\* tables records and duplicate_groups (models/database.py)
\* ------------------------------------------------------------------------

\* query(...).filter(id == ...).first(): the rows with the id, at most one as
\* id is the primary key
RowsWithId(rows, id) == SelectSeq(rows, LAMBDA row : row.id = id)

\* lines 201-203: is_duplicate = False on the row of keep_record_id, if any
KeepRecord(records, keep_record_id) ==
    [i \in 1..Len(records) |->
        IF records[i].id = keep_record_id
        THEN [records[i] EXCEPT !.is_duplicate = FALSE]
        ELSE records[i]]

\* lines 206-207: the group is marked as resolved
MarkResolved(duplicate_groups, duplicate_group_id) ==
    [k \in 1..Len(duplicate_groups) |->
        IF duplicate_groups[k].id = duplicate_group_id
        THEN [duplicate_groups[k] EXCEPT !.is_resolved = TRUE,
                                         !.resolution_action = "manual_merge"]
        ELSE duplicate_groups[k]]

\* the tables after the call and what it returns; the rows of the query of
\* lines 191-197 are not used by the function
RecordService_resolve_duplicates(db, duplicate_group_id, keep_record_id) ==
    IF RowsWithId(db.duplicate_groups, duplicate_group_id) = << >>
    THEN [db |-> db, returned |-> FALSE]
    ELSE [db |-> [records |-> KeepRecord(db.records, keep_record_id),
                  duplicate_groups |-> MarkResolved(db.duplicate_groups, duplicate_group_id)],
          returned |-> TRUE]

\* ------------------------------------------------------------------------
\* DocumentProcessor._clean_text
\* ------------------------------------------------------------------------

\* Characters outside ASCII are atoms: "e_acute" (U+00E9), "combining_acute"
\* (U+0301), "ligature_fi" (U+FB01), "alpha" (U+03B1), "emoji" (U+1F600),
\* "cjk" (U+4E2D).

\* the argument None
NoneText == << "None" >>

\* unicodedata.normalize('NFKD', c) on one character
NFKDChar(c) ==
    CASE c = "e_acute" -> << "e", "combining_acute" >>
      [] c = "ligature_fi" -> << "f", "i" >>
      [] OTHER -> << c >>

\* unicodedata.normalize('NFKD', text)
RECURSIVE NFKD(_)
NFKD(text) == IF text = << >> THEN << >> ELSE NFKDChar(Head(text)) \o NFKD(Tail(text))

\* the characters unicodedata.combining(c) is not 0 for
CombiningChars == {"combining_acute"}

\* the characters in the ranges of emoji_pattern, lines 112-120; the range
\* U+24C2 to U+1F251 holds the CJK ideographs
EmojiPatternChars == {"emoji", "cjk"}

\* the characters \w matches: letters and digits of any script, and '_'
WordChars == LatinLetters \cup Digits \cup {"alpha", "_"}

\* the characters \s matches
SpaceChars == Whitespace

\* the characters - . , @ ( ) / of the class of line 125
KeptPunctuation == {"-", ".", ",", "@", "(", ")", "/"}

\* the characters re.sub(r'[^\w\s\-.,@()/]', '', text) keeps
KeptChars == WordChars \cup SpaceChars \cup KeptPunctuation

\* text without the characters of cs
Without(text, cs) == SelectSeq(text, LAMBDA c : c \notin cs)

\* lines 109-125, on a text that is not empty
Filtered(text) ==
    Keep(Without(Without(NFKD(text), CombiningChars), EmojiPatternChars), KeptChars)

\* _clean_text(text)
_clean_text(text) ==
    IF text = NoneText \/ text = << >> THEN << >>
    ELSE Strip(JoinSp(SplitWs(Filtered(text))))

\* ------------------------------------------------------------------------
\* Input fixtures: the entity values of a document, by position
\* ------------------------------------------------------------------------

DigitSeq == << "0", "1", "2", "3", "4", "5", "6", "7", "8", "9" >>

\* the decimal digit of i
D(i) == DigitSeq[(i % 10) + 1]

\* a name that parses, different at every index
ValidName(i) ==
    CASE i % 3 = 1 -> << "J", "o", " ", "L" >> \o << LowerSeq[i] >>
      [] i % 3 = 2 -> << "X", "i", ",", " ", "A", "l", " ", "L" >> \o << LowerSeq[i] >>
      [] OTHER -> << "-", " ", "J", "o", " ", "L" >> \o << LowerSeq[i] >>

\* a name _parse_name rejects: a digit, a blacklisted word, one token, a
\* one-letter first name
InvalidName(i) ==
    CASE i % 4 = 1 -> << "J", "o", " ", "L", "7" >>
      [] i % 4 = 2 -> << "J", "o", " ", "W", "a", "y" >>
      [] i % 4 = 3 -> << "J", "o", "l", "a" >>
      [] OTHER -> << "J", " ", "L", "a" >>

\* a mobile with exactly 10 digits; index 3 repeats index 1
ValidMobile(i) ==
    CASE i % 4 = 1 -> << "0", "4", "1", "2", "3", "4", "5", "6", "7", "8" >>
      [] i % 4 = 2 -> << "0", "4", "-", "1", "2", "3", "4", "-", "5", "6", "7", "9" >>
      [] i % 4 = 3 -> << "0", "4", "1", "2", "3", "4", "5", "6", "7", "8" >>
      [] OTHER -> << "(", "0", "3", ")", " ", "1", "2", "3", "4", " ", "5", "6", "7", "8" >>

\* 9 digits, 11 digits, no digit
InvalidMobile(i) ==
    CASE i % 3 = 1 -> << "0", "4", "1", "2", "3", "4", "5", "6", "7" >>
      [] i % 3 = 2 -> << "0", "4", "1", "2", "3", "4", "5", "6", "7", "8", "9" >>
      [] OTHER -> << "n", "/", "a" >>

\* 15 characters or more with a digit among the first 10
ValidAddress(i) ==
    IF i % 2 = 1
    THEN << D(i) >> \o << " ", "M", "a", "i", "n", " ", "S", "t", " ", "S", "o", "u", "t", "h" >>
    ELSE << "F", "l", "a", "t", " ", "N", "o", ".", " " >> \o << D(i) >> \o << " ", "M", "a", "i", "n", " ", "S", "t", " ", "W" >>

\* too short, first digit at position 11, no digit
InvalidAddress(i) ==
    CASE i % 3 = 1 -> << "1", "2", " ", "M", "a", "i", "n", " ", "S", "t", " ", "W" >>
      [] i % 3 = 2 -> << "F", "l", "a", "t", " ", "N", "o", ".", " ", " " >> \o << D(i) >> \o << " ", "M", "a", "i", "n", " ", "S", "t" >>
      [] OTHER -> << "M", "a", "i", "n", " ", "S", "t", "r", "e", "e", "t", " ", "N", "o", "r", "t", "h", " ", "E", "n", "d" >>

ValidEmail == << "A", "l", "@", "E", "x", ".", "C", "o" >>

InvalidEmail == << "a", "l", ".", "b", "@", "e", "x" >>

ValidLandline == << "(", "0", "7", ")", " ", "1", "2", "3", "4", "-", "5", "6", "7", "8" >>

InvalidLandline == << "0", "7", " ", "1", "2", "3", "4" >>

SomeDate == << "1", "9", "9", "0" >>



\* the optional entities of a document: emails, landlines, dates
OptionalShapes ==
    << [email |-> << >>, landline |-> << >>, dateofbirth |-> << >>, lastseen |-> << >>],
       [email |-> << ValidEmail >>, landline |-> << >>, dateofbirth |-> << >>,
        lastseen |-> << >>],
       [email |-> << InvalidEmail >>, landline |-> << ValidLandline >>,
        dateofbirth |-> << >>, lastseen |-> << >>],
       [email |-> << ValidEmail, InvalidEmail >>, landline |-> << InvalidLandline >>,
        dateofbirth |-> << SomeDate >>, lastseen |-> << >>],
       [email |-> << >>, landline |-> << ValidLandline, InvalidLandline >>,
        dateofbirth |-> << >>,
        lastseen |-> [i \in 1..(MaxPerType + 1) |-> SomeDate]] >>

\* n values of one mandatory type, the one at index bad (0: none) invalid
NameValues(n, bad) == [i \in 1..n |-> IF i = bad THEN InvalidName(i) ELSE ValidName(i)]

MobileValues(n, bad) == [i \in 1..n |-> IF i = bad THEN InvalidMobile(i) ELSE ValidMobile(i)]

AddressValues(n, bad) ==
    [i \in 1..n |-> IF i = bad THEN InvalidAddress(i) ELSE ValidAddress(i)]

\* the entities of one type, in order
EntitiesOf(t, values) == [i \in 1..Len(values) |-> [type |-> t, value |-> values[i]]]

\* the order of the entity types in a document laid out type by type
TypeOrder == << "name", "mobile", "address", "email", "landline", "dateofbirth", "lastseen" >>

\* the document lists its entities type by type
RECURSIVE LayoutByType(_, _)
LayoutByType(lists, k) ==
    IF k > Len(TypeOrder) THEN << >>
    ELSE EntitiesOf(TypeOrder[k], lists[TypeOrder[k]]) \o LayoutByType(lists, k + 1)

\* the document lists its entities contact by contact
RECURSIVE LayoutByContact(_, _, _)
LayoutByContact(lists, i, k) ==
    IF i > Max({Len(lists[t]) : t \in DOMAIN lists}) THEN << >>
    ELSE IF k > Len(TypeOrder) THEN LayoutByContact(lists, i + 1, 1)
    ELSE (IF i <= Len(lists[TypeOrder[k]])
          THEN << [type |-> TypeOrder[k], value |-> lists[TypeOrder[k]][i]] >>
          ELSE << >>) \o LayoutByContact(lists, i, k + 1)

\* the documents of the assembly runs: an optional shape and a layout
DocumentForms ==
    { << 1, "by_type" >>, << 1, "by_contact" >>, << 2, "by_contact" >>,
      << 3, "by_type" >>, << 4, "by_contact" >>, << 5, "by_type" >> }

\* the entity list of a document
Document(names, mobiles, addresses, optional, layout) ==
    LET lists == [name |-> names, mobile |-> mobiles, address |-> addresses,
                  email |-> optional.email, landline |-> optional.landline,
                  dateofbirth |-> optional.dateofbirth, lastseen |-> optional.lastseen]
    IN  IF layout = "by_type" THEN LayoutByType(lists, 1) ELSE LayoutByContact(lists, 1, 1)


\* ------------------------------------------------------------------------
\* Input fixtures: the raw value of one field of a candidate record
\* ------------------------------------------------------------------------

\* the most digits a phone value holds
MaxPhoneDigits == 11

\* the last position of an address at which its only digit may stand
MaxDigitPos == 11

\* the digits of a phone value
PhoneDigitsOf(n) == [k \in 1..n |-> IF k = 1 THEN "0" ELSE IF k = 2 THEN "4" ELSE D(k)]

PhoneStyles == {"plain", "dashed", "padded", "worded"}

\* the digits at positions a to b of a phone value of n digits
DigitsFromTo(n, a, b) == SubSeq(PhoneDigitsOf(n), a, IF b < n THEN b ELSE n)

\* a phone value of n digits as a document may write it
PhoneOf(n, style) ==
    CASE style = "plain" -> PhoneDigitsOf(n)
      [] style = "dashed" ->
            DigitsFromTo(n, 1, 2) \o << "-" >>
               \o DigitsFromTo(n, 3, 6) \o << "-" >>
               \o DigitsFromTo(n, 7, n)
      [] style = "padded" ->
            << " ", "(" >> \o DigitsFromTo(n, 1, 2) \o << ")", " " >>
               \o DigitsFromTo(n, 3, n) \o << "\t" >>
      [] style = "worded" ->
            << "p", "h", ":", " " >> \o PhoneDigitsOf(n) \o << " ", "x" >>

Phone04_1234_5678 == << "0", "4", "-", "1", "2", "3", "4", "-", "5", "6", "7", "8" >>

PhoneInputs ==
    {PhoneOf(n, style) : n \in 0..MaxPhoneDigits, style \in PhoneStyles}
        \cup {Phone04_1234_5678, << >>}

\* an address of len characters whose only digit stands at pos (0: no digit)
AddressBody(len, pos) ==
    [k \in 1..len |->
        IF k = pos THEN "7"
        ELSE IF k = 1 THEN "M"
        ELSE IF k % 6 = 0 THEN " "
        ELSE "a"]

\* the address with white space around it
Padded(s) == << " ", "\t" >> \o s \o << " ", "\n" >>

Address123MainStreetSpringfield ==
    << "1", "2", "3", " ", "M", "a", "i", "n", " ", "S", "t", "r", "e", "e", "t", " ",
       "S", "p", "r", "i", "n", "g", "f", "i", "e", "l", "d" >>

AddressMainStreet == << "M", "a", "i", "n", " ", "S", "t", "r", "e", "e", "t" >>

AddressLengths == {MinAddressLen - 1, MinAddressLen, MinAddressLen + 1}

AddressInputs ==
    {AddressBody(len, pos) : len \in AddressLengths, pos \in 0..MaxDigitPos}
        \cup {Padded(AddressBody(len, pos)) : len \in AddressLengths, pos \in 0..MaxDigitPos}
        \cup {Address123MainStreetSpringfield, AddressMainStreet, << >>,
               Padded(Address123MainStreetSpringfield)}

EmailInputs ==
    { << >>,
      ValidEmail,
      Padded(ValidEmail),
      InvalidEmail,
      << "a", "l", "e", "x", ".", "c", "o" >>,
      << "a", "@", "b", ".", "c", "@", "d" >>,
      << "a", "@", "b", "@", "C", ".", "d" >>,
      << "a", "@", "b", "." >>,
      << "@", "." >>,
      << "@" >>,
      << "A", ".", "B", "@", "C" >> }

FieldNames == {"mobile", "landline", "address", "email"}

\* the values a document may hold for a field
FieldInputs(field) ==
    CASE field \in {"mobile", "landline"} -> PhoneInputs
      [] field = "address" -> AddressInputs
      [] field = "email" -> EmailInputs

\* a candidate record that passes every gate
BaseCandidate ==
    [name |-> ValidName(1), mobile |-> ValidMobile(1), address |-> ValidAddress(1)]

\* the candidate with one field as the document holds it
CandidateWith(field, value) == SetKey(BaseCandidate, field, value)

\* ------------------------------------------------------------------------
\* Input fixtures: the full_name values handed to _parse_name
\* ------------------------------------------------------------------------

\* the longest name, in pieces
MaxPieces == 3

\* the pieces names are put together from: a first name of two letters, of
\* one letter, a word, a word with a digit, a blacklisted word, a word that
\* holds one, a blacklisted word in capitals, a word closed by a separator, a
\* junk token, a word with one Latin letter and one other letter, two
\* words closed by a separator, a blacklisted word followed by a hyphen, and
\* a separator on its own
NamePieces ==
    { << "J", "o" >>,
      << "J" >>,
      << "L", "e", "e" >>,
      << "A", "l", "7" >>,
      << "w", "a", "y" >>,
      << "W", "a", "y", "n", "e" >>,
      << "Q", "L", "D" >>,
      << "S", "m", "i", "t", "h", "," >>,
      << "-" >>,
      << "e_acute", "a" >>,
      << "J", "o", " ", "L", "a", "," >>,
      << "w", "a", "-", "L", "e", "e" >>,
      << ";" >> }

NameSmithJohnA ==
    << "S", "m", "i", "t", "h", ",", " ", "J", "o", "h", "n", " ", "A" >>

NameQldPtyLtd == << "q", "l", "d", " ", "P", "t", "y", " ", "L", "t", "d" >>

Name123MainStreet ==
    << "1", "2", "3", " ", "M", "a", "i", "n", " ", "S", "t", "r", "e", "e", "t" >>

NameJoLee == << "J", "o", " ", "L", "e", "e" >>

\* the pieces joined by single spaces, up to MaxPieces of them, and the names
\* the tests of the parser are written with
NameInputs ==
    { JoinSp(pieces) : pieces \in UNION { [1..k -> NamePieces] : k \in 0..MaxPieces } }
        \cup { NameSmithJohnA, NameQldPtyLtd, Name123MainStreet,
                <<" ", "\t">> \o NameJoLee \o <<" ", "\n">> }

\* ------------------------------------------------------------------------
\* Input fixtures: the records handed to _calculate_similarity
\* ------------------------------------------------------------------------

\* the mark of a key the dict does not hold
Absent == << "absent" >>

\* a dict with the keys of fields whose value is not Absent
DictOf(fields) == [key \in { k \in DOMAIN fields : fields[k] # Absent } |-> fields[key]]

\* no mobile, or one of two mobiles as the cleaning leaves them
SimilarityMobiles == { Absent, PhoneDigitsOf(10),
                       << "0", "4", "9", "9", "9", "9", "9", "9", "9", "9" >> }

\* no name, a first name alone, and names that share both, one or none of
\* their words with "Jo Lee", in either case and order
SimilarityNames ==
    { << Absent, Absent >>,
      << << "J", "o" >>, << >> >>,
      << << "J", "o" >>, << "L", "e", "e" >> >>,
      << << "l", "e", "e" >>, << "j", "o" >> >>,
      << << "J", "o" >>, << "A", " ", "L", "e", "e" >> >>,
      << << "A", "l" >>, << "N", "g" >> >> }

\* no address, a blank one, and addresses that share all, some or none of
\* their words
SimilarityAddresses ==
    { Absent,
      << " " >>,
      << "1", " ", "E", "l", "m", " ", "S", "t" >>,
      << "1", " ", "e", "l", "m", " ", "s", "t", " " >>,
      << "1", " ", "E", "l", "m", " ", "R", "d" >>,
      << "9", " ", "O", "a", "k", " ", "A", "v" >> }

\* no email, or one of two emails as the cleaning leaves them
SimilarityEmails == { Absent, << >>, Lower(ValidEmail), << "j", "@", "x", ".", "y" >> }

SimilarityRecords ==
    { DictOf([mobile |-> mobile, first_name |-> name[1], last_name |-> name[2],
              address |-> address, email |-> email]) :
        mobile \in SimilarityMobiles, name \in SimilarityNames,
        address \in SimilarityAddresses, email \in SimilarityEmails }

\* the first record of the pairs compared: every other record is compared
\* with each of these
SimilarityFirstRecords ==
    { r \in SimilarityRecords :
        /\ Get(r, "first_name") \in { << >>, << "J", "o" >> }
        /\ Get(r, "last_name") \in { << >>, << "L", "e", "e" >> }
        /\ Get(r, "address") \in { << >>, << "1", " ", "E", "l", "m", " ", "S", "t" >> }
        /\ Get(r, "email") \in { << >>, Lower(ValidEmail) } }

\* ------------------------------------------------------------------------
\* Input fixtures: the strings handed to _string_similarity
\* ------------------------------------------------------------------------

\* the empty string, blank strings, and strings of one to three words that
\* share all, some or none of their words
SimilarityStrings ==
    { << >>,
      << " " >>,
      << " ", " " >>,
      << "a" >>,
      << "b" >>,
      << "a", " ", "b" >>,
      << "b", " ", "a" >>,
      << "a", " ", "a" >>,
      << " ", "a", " ", " ", "b", " " >>,
      << "b", " ", "c" >>,
      << "a", " ", "b", " ", "c" >>,
      << "c", " ", "d" >> }

\* ------------------------------------------------------------------------
\* Input fixtures: the record and the pool handed to get_similar_records
\* ------------------------------------------------------------------------

\* the longest pool
MaxPool == 3

\* the contents of the records of a pool: with the first, the second has a
\* similarity of 7/9, the third of 8/9, the fourth of 0
PoolContents ==
    { [mobile |-> PhoneDigitsOf(10), first_name |-> << "J", "o" >>,
       last_name |-> << "L", "e", "e" >>,
       address |-> << "1", " ", "E", "l", "m", " ", "S", "t" >>],
      [mobile |-> PhoneDigitsOf(10), first_name |-> << "l", "e", "e" >>,
       last_name |-> << "j", "o" >>,
       address |-> << "9", " ", "O", "a", "k", " ", "A", "v" >>],
      [mobile |-> PhoneDigitsOf(10), first_name |-> << "J", "o" >>,
       last_name |-> << "L", "e", "e" >>,
       address |-> << "1", " ", "E", "l", "m", " ", "R", "d" >>],
      [mobile |-> << "0", "4", "9", "9", "9", "9", "9", "9", "9", "9" >>,
       first_name |-> << "A", "l" >>, last_name |-> << "N", "g" >>] }

\* the thresholds: the default 0.8 of line 116, 7/9 and 0
Thresholds == { << 4, 5 >>, << 7, 9 >>, << 0, 1 >> }

\* the pools: records as the record store hands them out, with their ids, or
\* as _clean_and_validate_records leaves them, without
PoolOf(contents, with_ids) ==
    [k \in 1..Len(contents) |->
        IF with_ids THEN SetKey(contents[k], "id", k) ELSE contents[k]]

Pools ==
    { PoolOf(contents, with_ids) :
        contents \in UNION { [1..n -> PoolContents] : n \in 0..MaxPool },
        with_ids \in BOOLEAN }

\* ------------------------------------------------------------------------
\* Input fixtures: the texts handed to _clean_text
\* ------------------------------------------------------------------------

\* the longest text, in characters
MaxTextLen == 3

\* a letter, a digit, the underscore, a special character, a space, a tab, a
\* kept punctuation mark, an accented letter, an emoji, a CJK ideograph and a
\* Greek letter
TextChars == {"a", "7", "_", "#", " ", "\t", "-", "e_acute", "emoji", "cjk", "alpha"}

\* "  caf(e acute)  #1 "
TextCafe ==
    << " ", " ", "c", "a", "f", "e_acute", " ", " ", "#", "1", " " >>

TextInputs ==
    UNION { [1..n -> TextChars] : n \in 0..MaxTextLen }
        \cup { NoneText, TextCafe, << "ligature_fi", "x", "@", "y", ".", "z" >> }

\* most rows of the table records
MaxRows == 3

\* the jobs and the mobiles of the rows
RowJobs == {"job-1", "job-2"}

RowMobiles ==
    { << "0", "4", "1", "2", "3", "4", "5", "6", "7", "8" >>,
      << "0", "4", "9", "9", "9", "9", "9", "9", "9", "9" >> }

\* the table duplicate_groups: a group of each mobile of job-1
StoredGroups ==
    << [id |-> 1, job_id |-> "job-1", is_resolved |-> FALSE, resolution_action |-> "",
        mobile_number |-> << "0", "4", "1", "2", "3", "4", "5", "6", "7", "8" >>],
       [id |-> 2, job_id |-> "job-1", is_resolved |-> FALSE, resolution_action |-> "",
        mobile_number |-> << "0", "4", "9", "9", "9", "9", "9", "9", "9", "9" >>] >>

\* ------------------------------------------------------------------------
\* Uploaded files and process_file_group (api/files.py)
\* ------------------------------------------------------------------------

\* the files a job may hold.  kind "save_error": save_uploaded_file raises
\* (storage.py line 36); kind "ai_error": the recognition call raises
\* (document_processor.py lines 81-83); entities: what _extract_entities returns
FilePool ==
    { [filename |-> "a.pdf", kind |-> "ok",
       entities |-> Document(NameValues(2, 0), MobileValues(2, 0), AddressValues(2, 0),
                             OptionalShapes[2], "by_contact")],
      [filename |-> "b.pdf", kind |-> "ok",
       entities |-> Document(NameValues(1, 0), MobileValues(1, 0), AddressValues(1, 0),
                             OptionalShapes[1], "by_type")],
      [filename |-> "c.pdf", kind |-> "ai_error", entities |-> << >>],
      [filename |-> "d.pdf", kind |-> "save_error", entities |-> << >>],
      [filename |-> "e.pdf", kind |-> "ok", entities |-> << >>] }

\* the id of the job
JobId == "job-1"

\* process_file(file_path, job_id): the records, or the exception re-raised at line 58
process_file(file) ==
    IF file.kind = "ai_error" THEN [raised |-> TRUE, records |-> << >>]
    ELSE IF file.entities = << >> THEN [raised |-> FALSE, records |-> << >>]
    ELSE [raised |-> FALSE, records |-> Assemble(file.entities)]

\* lines 258-260
AddSource(file_records, filename, job_id) ==
    [i \in 1..Len(file_records) |->
        SetKey(SetKey(file_records[i], "source_file", filename), "job_id", job_id)]

\* lines 255-266 once save_uploaded_file returned: the records the turn adds,
\* whether an exception leaves the loop, whether the temporary file stays on disk
TurnAfterSave(processed, filename, job_id) ==
    IF processed.raised
    THEN [records |-> << >>, raised |-> FALSE, temp_left |-> TRUE]
    ELSE [records |-> AddSource(processed.records, filename, job_id),
          raised |-> FALSE, temp_left |-> FALSE]

\* FileTurn without the try/except of lines 250-270: a fault C4 detects
FileTurn_propagating(file, job_id) ==
    IF file.kind = "save_error"
    THEN [records |-> << >>, raised |-> TRUE, temp_left |-> FALSE]
    ELSE IF file.kind = "ai_error"
    THEN [records |-> << >>, raised |-> TRUE, temp_left |-> TRUE]
    ELSE TurnAfterSave(process_file(file), file.filename, job_id)

\* one turn of the loop of lines 249-270
FileTurn(file, job_id) ==
    IF file.kind = "save_error"
    THEN [records |-> << >>, raised |-> FALSE, temp_left |-> FALSE]
    ELSE TurnAfterSave(process_file(file), file.filename, job_id)

\* the result of the loop from turn k on, given the result of the later turns
TurnThen(turn, k, rest) ==
    [records |-> turn.records \o rest.records,
     raised |-> rest.raised,
     temp_left |-> (IF turn.temp_left THEN {k} ELSE {}) \cup rest.temp_left]

\* process_file_group(files, job_id, ...): the returned records, whether an
\* exception leaves the call, and the positions (in files) of the temporary
\* files left on disk
RECURSIVE GroupLoop(_, _, _)

\* turn k made, the loop goes on unless an exception left it
AfterTurn(turn, group_files, job_id, k) ==
    IF turn.raised
    THEN [records |-> << >>, raised |-> TRUE,
          temp_left |-> IF turn.temp_left THEN {k} ELSE {}]
    ELSE TurnThen(turn, k, GroupLoop(group_files, job_id, k + 1))

GroupLoop(group_files, job_id, k) ==
    IF k > Len(group_files)
    THEN [records |-> << >>, raised |-> FALSE, temp_left |-> {}]
    ELSE AfterTurn(FileTurn(group_files[k], job_id), group_files, job_id, k)

\* a loop that a failing document ends (break for continue at line 270): a
\* fault C9 detects
RECURSIVE GroupLoop_break(_, _, _)
GroupLoop_break(group_files, job_id, k) ==
    IF k > Len(group_files)
    THEN [records |-> << >>, raised |-> FALSE, temp_left |-> {}]
    ELSE IF group_files[k].kind # "ok"
    THEN [records |-> << >>, raised |-> FALSE,
          temp_left |-> IF group_files[k].kind = "ai_error" THEN {k} ELSE {}]
    ELSE TurnThen(FileTurn(group_files[k], job_id), k,
                  GroupLoop_break(group_files, job_id, k + 1))

process_file_group_break(group_files, job_id) == GroupLoop_break(group_files, job_id, 1)

process_file_group(group_files, job_id) == GroupLoop(group_files, job_id, 1)


\* ------------------------------------------------------------------------
\* State
\* ------------------------------------------------------------------------

VARIABLES
    entities,           \* the entity list handed to the assembly stage
    records,            \* the batch of record dicts
    before,             \* the batch as it was when detect_duplicates was last called
    duplicate_count,    \* what the last detect_duplicates call returned (-1: no call)
    prev_count,         \* what the call before it returned (-1: none)
    calls,              \* calls of detect_duplicates on the batch so far
    pc,                 \* "entities", "assembled", "batch", "detected", "idle", and
                        \* the positions of the function calls
    input,              \* the arguments of a function called on its own
    output,             \* what that call returned
    files,              \* the uploaded files of the job
    group_size,         \* the group_size of the job
    job_pc,             \* "scheduled", "loop", "done", "idle"
    next_file,          \* i of line 199: offset of the next group
    all_records,        \* all_records of process_files_background
    detect_calls,       \* calls of detect_duplicates made by the job
    detect_input,       \* the list the job handed to detect_duplicates
    store_failed,       \* an UPDATE of the job raised
    temp_files,         \* positions of the files whose temporary copy is on disk
    status,             \* processing_jobs.status
    total_files,        \* processing_jobs.total_files
    processed_files,    \* processing_jobs.processed_files
    total_records,      \* processing_jobs.total_records
    duplicates_found    \* processing_jobs.duplicates_found

batchVars ==
    << entities, records, before, duplicate_count, prev_count, calls, pc, input, output >>

jobRow == << status, total_files, processed_files, total_records, duplicates_found >>

jobVars ==
    << files, group_size, job_pc, next_file, all_records, detect_calls, detect_input,
       store_failed, temp_files, jobRow >>

vars == << batchVars, jobVars >>

\* no job: the state of the job variables in the specifications of the batch
JobIdle ==
    /\ files = << >>
    /\ group_size = 1
    /\ job_pc = "idle"
    /\ next_file = 0
    /\ all_records = << >>
    /\ detect_calls = 0
    /\ detect_input = << >>
    /\ store_failed = FALSE
    /\ temp_files = {}
    /\ status = "none"
    /\ total_files = 0
    /\ processed_files = 0
    /\ total_records = 0
    /\ duplicates_found = 0

\* no batch: the state of the batch variables in the specification of the job
BatchIdle ==
    /\ entities = << >>
    /\ records = << >>
    /\ before = << >>
    /\ duplicate_count = -1
    /\ prev_count = -1
    /\ calls = 0
    /\ pc = "idle"
    /\ input = << >>
    /\ output = << >>

\* ------------------------------------------------------------------------
\* The assembly stage followed by duplicate detection (process_file, then
\* detect_duplicates as process_files_background calls it)
\* ------------------------------------------------------------------------

InitAssembly ==
    /\ \E nN \in 0..MaxPerType, nM \in 0..MaxPerType, nA \in 0..MaxPerType :
       \E badN \in 0..nN, badM \in 0..nM, badA \in 0..nA :
       \E form \in DocumentForms :
          entities = Document(NameValues(nN, badN), MobileValues(nM, badM),
                              AddressValues(nA, badA), OptionalShapes[form[1]], form[2])
    /\ records = << >>
    /\ before = << >>
    /\ duplicate_count = -1
    /\ prev_count = -1
    /\ calls = 0
    /\ pc = "entities"
    /\ input = << >>
    /\ output = << >>
    /\ JobIdle

\* lines 47-51 of process_file
AssembleEntities ==
    /\ pc = "entities"
    /\ records' = Assemble(entities)
    /\ pc' = "assembled"
    /\ UNCHANGED << entities, before, duplicate_count, prev_count, calls, input, output,
                    jobVars >>

\* the effect of one call of detect_duplicates on the batch
DetectReturns(result) ==
    /\ before' = records
    /\ records' = result.records
    /\ duplicate_count' = result.count
    /\ prev_count' = duplicate_count
    /\ calls' = calls + 1
    /\ pc' = "detected"
    /\ UNCHANGED << entities, input, output, jobVars >>

\* detect_duplicates on the assembled records, as line 218 of api/files.py calls it
DetectAssembled ==
    /\ pc = "assembled"
    /\ DetectReturns(detect_duplicates(records))

NextAssembly == AssembleEntities \/ DetectAssembled

SpecAssembly == InitAssembly /\ [][NextAssembly]_vars

\* ------------------------------------------------------------------------
\* detect_duplicates on an arbitrary batch of records
\* ------------------------------------------------------------------------

\* the mobiles of the batch: two 04 mobiles, one written with separators, a
\* 10-digit number that is no 04 mobile, and the empty string
BatchMobiles ==
    { << "0", "4", "1", "2", "3", "4", "5", "6", "7", "8" >>,
      << "0", "4", "9", "9", "9", "9", "9", "9", "9", "9" >>,
      << "0", "4", "-", "1", "2", "3", "4", "-", "5", "6", "7", "8" >>,
      << "0", "3", "1", "2", "3", "4", "5", "6", "7", "8" >>,
      << >> }

\* the is_duplicate a record of the batch enters with: the key may be absent
BatchFlags == {"absent", "true", "false"}

\* a record dict of the batch
BatchRecord(id, mobile, flag) ==
    IF flag = "absent"
    THEN [id |-> id, mobile |-> mobile]
    ELSE [id |-> id, mobile |-> mobile, is_duplicate |-> (flag = "true")]

InitDetect ==
    /\ \E n \in 0..MaxBatch :
       \E ms \in [1..n -> BatchMobiles], fs \in [1..n -> BatchFlags] :
          records = [i \in 1..n |-> BatchRecord(i, ms[i], fs[i])]
    /\ entities = << >>
    /\ before = << >>
    /\ duplicate_count = -1
    /\ prev_count = -1
    /\ calls = 0
    /\ pc = "batch"
    /\ input = << >>
    /\ output = << >>
    /\ JobIdle

\* a call of detect_duplicates on the batch
Detect ==
    /\ pc \in {"batch", "detected"}
    /\ calls < MaxCalls
    /\ DetectReturns(detect_duplicates(records))

NextDetect == Detect

SpecDetect == InitDetect /\ [][NextDetect]_vars


\* ------------------------------------------------------------------------
\* The processing job: upload_files, process_files_background,
\* cancel_processing_job
\* ------------------------------------------------------------------------

\* the state upload_files leaves: the job row created by create_processing_job
\* and the background task scheduled
Init ==
    /\ \E n \in 1..MaxFiles : files \in [1..n -> FilePool]
    /\ group_size \in 1..MaxGroupSize
    /\ job_pc = "scheduled"
    /\ next_file = 0
    /\ all_records = << >>
    /\ detect_calls = 0
    /\ detect_input = << >>
    /\ store_failed = FALSE
    /\ temp_files = {}
    /\ status = "pending"
    /\ total_files = Len(files)
    /\ processed_files = 0
    /\ total_records = 0
    /\ duplicates_found = 0
    /\ BatchIdle

\* the except clause of lines 229-238
HandleException ==
    /\ status' = "failed"
    /\ job_pc' = "done"

\* lines 170-197
StartJob ==
    /\ job_pc = "scheduled"
    /\ status' = "processing"
    /\ job_pc' = "loop"
    /\ UNCHANGED << files, group_size, next_file, all_records, detect_calls, detect_input,
                    store_failed, temp_files, total_files, processed_files,
                    total_records, duplicates_found, batchVars >>

\* files[i:i + group_size]
group_files_at(i) ==
    SubSeq(files, i + 1, IF i + group_size < Len(files) THEN i + group_size ELSE Len(files))

\* GroupReturns counting group_size files for every group: a fault C26 detects
GroupReturns_counting_group_size(out, group_files) ==
    /\ temp_files' = temp_files \cup {next_file + k : k \in out.temp_left}
    /\ IF out.raised
       THEN /\ HandleException
            /\ UNCHANGED << next_file, all_records, processed_files >>
       ELSE /\ all_records' = all_records \o out.records
            /\ processed_files' = processed_files + group_size
            /\ next_file' = next_file + group_size
            /\ UNCHANGED << status, job_pc >>

\* lines 204-213 (or the except clause) once process_file_group returned
GroupReturns(out, group_files) ==
    /\ temp_files' = temp_files \cup {next_file + k : k \in out.temp_left}
    /\ IF out.raised
       THEN /\ HandleException
            /\ UNCHANGED << next_file, all_records, processed_files >>
       ELSE /\ all_records' = all_records \o out.records
            /\ processed_files' = processed_files + Len(group_files)
            /\ next_file' = next_file + group_size
            /\ UNCHANGED << status, job_pc >>

\* a loop turn that runs detect_duplicates on the records so far: a fault C3
\* detects
ProcessGroup_detecting ==
    /\ job_pc = "loop"
    /\ next_file < Len(files)
    /\ LET out == process_file_group(group_files_at(next_file), JobId)
       IN  /\ temp_files' = temp_files \cup {next_file + k : k \in out.temp_left}
           /\ detect_input' = all_records \o out.records
           /\ all_records' = detect_duplicates(all_records \o out.records).records
    /\ detect_calls' = detect_calls + 1
    /\ processed_files' = processed_files + Len(group_files_at(next_file))
    /\ next_file' = next_file + group_size
    /\ UNCHANGED << files, group_size, job_pc, store_failed, status, total_files,
                    total_records, duplicates_found, batchVars >>

\* one turn of the loop of lines 199-213
ProcessGroup ==
    /\ job_pc = "loop"
    /\ next_file < Len(files)
    /\ GroupReturns(process_file_group(group_files_at(next_file), JobId),
                    group_files_at(next_file))
    /\ UNCHANGED << files, group_size, detect_calls, detect_input, store_failed,
                    total_files, total_records, duplicates_found, batchVars >>

\* lines 218-225 once detect_duplicates returned
DetectionReturns(result) ==
    /\ detect_input' = all_records
    /\ detect_calls' = detect_calls + 1
    /\ all_records' = result.records
    /\ status' = "completed"
    /\ total_records' = Len(all_records)
    /\ duplicates_found' = result.count

\* lines 215-227, once the loop has ended
FinishJob ==
    /\ job_pc = "loop"
    /\ next_file >= Len(files)
    /\ job_pc' = "done"
    /\ IF all_records # << >>
       THEN DetectionReturns(detect_duplicates(all_records))
       ELSE UNCHANGED << detect_input, detect_calls, all_records, status, total_records,
                         duplicates_found >>
    /\ UNCHANGED << files, group_size, next_file, store_failed, temp_files, total_files,
                    processed_files, batchVars >>

\* the UPDATE of lines 189-193 raises (the store is unavailable)
StartFails ==
    /\ job_pc = "scheduled"
    /\ store_failed' = TRUE
    /\ HandleException
    /\ UNCHANGED << files, group_size, next_file, all_records, detect_calls, detect_input,
                    temp_files, total_files, processed_files, total_records,
                    duplicates_found, batchVars >>

\* lines 204-206 once process_file_group returned, the UPDATE still to come
GroupThenFailure(out) ==
    /\ temp_files' = temp_files \cup {next_file + k : k \in out.temp_left}
    /\ all_records' = IF out.raised THEN all_records ELSE all_records \o out.records

\* the UPDATE of lines 209-213 raises after the group was processed
ProgressFails ==
    /\ job_pc = "loop"
    /\ next_file < Len(files)
    /\ GroupThenFailure(process_file_group(group_files_at(next_file), JobId))
    /\ store_failed' = TRUE
    /\ HandleException
    /\ UNCHANGED << files, group_size, next_file, detect_calls, detect_input, total_files,
                    processed_files, total_records, duplicates_found, batchVars >>

\* the UPDATE of lines 221-225 raises after detect_duplicates returned
CompleteFails ==
    /\ job_pc = "loop"
    /\ next_file >= Len(files)
    /\ all_records # << >>
    /\ detect_input' = all_records
    /\ detect_calls' = detect_calls + 1
    /\ all_records' = detect_duplicates(all_records).records
    /\ store_failed' = TRUE
    /\ HandleException
    /\ UNCHANGED << files, group_size, next_file, temp_files, total_files,
                    processed_files, total_records, duplicates_found, batchVars >>

\* FileService.cancel_processing_job, called by DELETE /jobs/{job_id}
cancel_processing_job ==
    /\ job_pc \in {"scheduled", "loop", "done"}
    /\ status \in {"pending", "processing"}
    /\ status' = "cancelled"
    /\ UNCHANGED << files, group_size, job_pc, next_file, all_records, detect_calls,
                    detect_input, store_failed, temp_files, total_files, processed_files,
                    total_records, duplicates_found, batchVars >>

Next ==
    \/ StartJob
    \/ ProcessGroup
    \/ FinishJob
    \/ StartFails
    \/ ProgressFails
    \/ CompleteFails
    \/ cancel_processing_job

Spec == Init /\ [][Next]_vars


\* ------------------------------------------------------------------------
\* Claims on the assembly stage (SpecAssembly)
\* ------------------------------------------------------------------------

\* the assembly stage has run
Assembled == pc \in {"assembled", "detected"}

\* the value of the i-th entity of type t of a list, '' when it has fewer
RECURSIVE NthOfType(_, _, _)
NthOfType(es, t, i) ==
    IF es = << >> THEN << >>
    ELSE IF Head(es).type # t THEN NthOfType(Tail(es), t, i)
    ELSE IF i = 1 THEN Head(es).value
    ELSE NthOfType(Tail(es), t, i - 1)

\* the number of entities of type t
CountOfType(es, t) == Cardinality({k \in 1..Len(es) : es[k].type = t})

\* the length of the longest type-list
Longest(es) == Max({CountOfType(es, t) : t \in EntityTypes})

ExactlyTenDigits(s) == Len(s) = 10 /\ \A k \in 1..Len(s) : s[k] \in Digits

\* the name at index i parses to a first and a last name
NameOK(es, i) ==
    LET parsed == _parse_name(Strip(NthOfType(es, "name", i)))
    IN  parsed[1] # << >> /\ parsed[2] # << >>

\* the mobile at index i holds exactly 10 digits
MobileOK(es, i) == Len(Keep(NthOfType(es, "mobile", i), Digits)) = 10

\* the address at index i, trimmed, has 15 characters and a digit among its first 10
AddressOK(es, i) ==
    LET address == Strip(NthOfType(es, "address", i))
    IN  Len(address) >= 15 /\ HasDigit(SubSeq(address, 1, 10))

LandlineOK(es, i) == Len(Keep(NthOfType(es, "landline", i), Digits)) = 10

EmailOK(es, i) ==
    LET email == Strip(NthOfType(es, "email", i))
    IN  "@" \in Chars(email) /\ "." \in Chars(AfterLast(email, "@"))

\* the candidate indices whose three mandatory checks all pass
AcceptedIndices(es) ==
    {i \in 1..Longest(es) : NameOK(es, i) /\ MobileOK(es, i) /\ AddressOK(es, i)}

\* the j-th smallest element of a set of numbers
NthSmallest(S, j) == CHOOSE x \in S : Cardinality({y \in S : y < x}) = j - 1

\* the emitted record r holds the fields of candidate index i, each cleaned
HoldsIndex(r, es, i) ==
    /\ << r.first_name, r.last_name >> = _parse_name(Strip(NthOfType(es, "name", i)))
    /\ r.mobile = Keep(NthOfType(es, "mobile", i), Digits)
    /\ r.address = Strip(NthOfType(es, "address", i))

\* C1: every record the assembly stage emits has a non-empty first_name and
\* last_name, a mobile of exactly 10 digits, and an address of at least 15
\* characters with a digit among its first 10
C1_MandatoryFields ==
    Assembled =>
        \A j \in 1..Len(records) :
            /\ records[j].first_name # << >>
            /\ records[j].last_name # << >>
            /\ ExactlyTenDigits(records[j].mobile)
            /\ records[j].address # << >>
            /\ Len(records[j].address) >= 15
            /\ HasDigit(SubSeq(records[j].address, 1, 10))

\* some candidates were emitted and one with a bad address was rejected
C1_Witness ==
    /\ pc = "assembled"
    /\ Len(records) >= 2
    /\ \E i \in 1..Longest(entities) :
          NameOK(entities, i) /\ MobileOK(entities, i) /\ ~ AddressOK(entities, i)

\* C5: every emitted record carries confidence_score 0.8, is_duplicate = false
\* and is_valid = true, and after detect_duplicates every record still has a
\* boolean is_duplicate and is_valid
C5_FlagsSet ==
    Assembled =>
        \A j \in 1..Len(records) :
            /\ records[j].confidence_score = << 8, 10 >>
            /\ "is_duplicate" \in DOMAIN records[j]
            /\ "is_valid" \in DOMAIN records[j]
            /\ records[j].is_duplicate \in BOOLEAN
            /\ records[j].is_valid = TRUE
            /\ (pc = "assembled" => records[j].is_duplicate = FALSE)

\* C7: candidate i takes the i-th entity of each type, a candidate without a
\* name is dropped, and the emitted records are those of the accepted indices
\* in order, each holding the name, mobile and address of its own index; 3
\* names, 2 mobiles, 3 addresses and 1 email, all valid, give the records of
\* index 1 and 2
C7_PairedByPosition ==
    pc = "assembled" =>
        /\ LET cands == _group_entities_to_records(entities)
               named == {i \in 1..Longest(entities) : NthOfType(entities, "name", i) # << >>}
           IN  /\ Len(cands) = Cardinality(named)
               /\ \A j \in 1..Len(cands) :
                     \A t \in EntityTypes :
                        Get(cands[j], FieldOfType[t])
                            = NthOfType(entities, t, NthSmallest(named, j))
        /\ LET accepted == AcceptedIndices(entities)
           IN  /\ Len(records) = Cardinality(accepted)
               /\ \A j \in 1..Len(records) :
                     HoldsIndex(records[j], entities, NthSmallest(accepted, j))
        /\ ( /\ ValuesOfType(entities, "name") = NameValues(3, 0)
             /\ ValuesOfType(entities, "mobile") = MobileValues(2, 0)
             /\ ValuesOfType(entities, "address") = AddressValues(3, 0)
             /\ ValuesOfType(entities, "email") = << ValidEmail >>
             => /\ Len(records) = 2
                /\ HoldsIndex(records[1], entities, 1)
                /\ HoldsIndex(records[2], entities, 2)
                /\ records[1].mobile # records[2].mobile
                /\ records[1].address # records[2].address
                /\ records[1].last_name # records[2].last_name
                /\ ~ MobileOK(entities, 3) )

\* the example of C7 has been assembled
C7_Witness ==
    /\ pc = "assembled"
    /\ CountOfType(entities, "name") = 3
    /\ CountOfType(entities, "mobile") = 2
    /\ CountOfType(entities, "address") = 3
    /\ CountOfType(entities, "email") = 1
    /\ Len(records) = 2
    /\ NameOK(entities, 3) /\ AddressOK(entities, 3)

\* C8: a candidate is accepted exactly when its name parses, its mobile
\* validates and its address validates; an invalid or missing landline or
\* email rejects nothing and leaves the field empty
C8_ThreeGates ==
    pc = "assembled" =>
        LET accepted == AcceptedIndices(entities)
        IN
        /\ Len(records) = Cardinality(accepted)
        /\ \A j \in 1..Len(records) :
              LET i == NthSmallest(accepted, j)
              IN  /\ records[j].landline =
                        IF LandlineOK(entities, i)
                        THEN Keep(NthOfType(entities, "landline", i), Digits)
                        ELSE << >>
                  /\ records[j].email =
                        IF EmailOK(entities, i)
                        THEN Lower(Strip(NthOfType(entities, "email", i)))
                        ELSE << >>

\* accepted candidates with an invalid landline, an invalid email and none at
\* all, beside a candidate rejected by one gate only
C8_Witness ==
    /\ pc = "assembled"
    /\ \E j \in 1..Len(records) :
          LET i == NthSmallest(AcceptedIndices(entities), j)
          IN  /\ NthOfType(entities, "landline", i) # << >>
              /\ ~ LandlineOK(entities, i)
              /\ records[j].email # << >>
    /\ \E j \in 1..Len(records) :
          LET i == NthSmallest(AcceptedIndices(entities), j)
          IN  /\ NthOfType(entities, "email", i) # << >>
              /\ ~ EmailOK(entities, i)
    /\ \E i \in 1..Longest(entities) :
          NameOK(entities, i) /\ AddressOK(entities, i) /\ ~ MobileOK(entities, i)


\* ------------------------------------------------------------------------
\* Claims on detect_duplicates (SpecDetect)
\* ------------------------------------------------------------------------

FlaggedTrue(r) == "is_duplicate" \in DOMAIN r /\ r.is_duplicate = TRUE

FlaggedFalse(r) == "is_duplicate" \in DOMAIN r /\ r.is_duplicate = FALSE

\* the two records carry the same is_duplicate, or both none
SameFlag(a, b) == FlaggedTrue(a) = FlaggedTrue(b) /\ FlaggedFalse(a) = FlaggedFalse(b)

\* the record without its is_duplicate
Frame(r) == [k \in DOMAIN r \ {"is_duplicate"} |-> r[k]]

\* the indices of the batch whose mobile is that of index i
SharingMobile(batch, i) == {j \in 1..Len(batch) : batch[j].mobile = batch[i].mobile}

Mobile0412345678 == << "0", "4", "1", "2", "3", "4", "5", "6", "7", "8" >>

Mobile0499999999 == << "0", "4", "9", "9", "9", "9", "9", "9", "9", "9" >>

C6_SecondRunSame ==
    pc = "detected" /\ calls >= 2 =>
        /\ Len(records) = Len(before)
        /\ \A i \in 1..Len(records) : SameFlag(records[i], before[i])
        /\ duplicate_count = prev_count

\* two calls on a batch holding a group of three and thus two flagged records
C6_Witness ==
    /\ pc = "detected"
    /\ calls = 2
    /\ Len(records) = 3
    /\ duplicate_count = 2
    /\ prev_count = 2

\* C10 as stated: detect_duplicates leaves every field but is_duplicate, the
\* order and the membership of the batch alone, and leaves whole every record
\* outside a group of two or more, in particular every record whose mobile is
\* empty or does not match ^04\d{8}$
C10_RawPatternOnly ==
    pc = "detected" =>
        /\ Len(records) = Len(before)
        /\ \A i \in 1..Len(before) :
              /\ Frame(records[i]) = Frame(before[i])
              /\ ( \/ before[i].mobile = << >>
                   \/ ~ mobile_pattern_match(before[i].mobile)
                   \/ Cardinality(SharingMobile(before, i)) < 2
                   => records[i] = before[i] )

\* C10 amended: the same, for every record whose mobile is empty or whose
\* digits, once every other character is removed, do not match ^04\d{8}$
C10_DigitsPatternOnly ==
    pc = "detected" =>
        /\ Len(records) = Len(before)
        /\ \A i \in 1..Len(before) :
              /\ Frame(records[i]) = Frame(before[i])
              /\ ( \/ before[i].mobile = << >>
                   \/ ~ mobile_pattern_match(Keep(before[i].mobile, Digits))
                   \/ Cardinality(SharingMobile(before, i)) < 2
                   => records[i] = before[i] )

\* a call that flagged a record whose mobile is written with separators and
\* left alone a flagged record without a mobile
C10_Witness ==
    /\ pc = "detected"
    /\ calls = 1
    /\ \E i \in 1..Len(before) :
          /\ before[i].mobile = << >>
          /\ FlaggedTrue(before[i])
          /\ records[i] = before[i]
    /\ \E j \in 1..Len(before) :
          /\ ~ mobile_pattern_match(before[j].mobile)
          /\ mobile_pattern_match(Keep(before[j].mobile, Digits))
          /\ ~ FlaggedTrue(before[j])
          /\ FlaggedTrue(records[j])


\* ------------------------------------------------------------------------
\* Claims on the processing job (Spec)
\* ------------------------------------------------------------------------

\* the records one document contributes: those of its entities when it is
\* saved and extracted, none when either step raises
DocumentRecords(file) ==
    IF file.kind = "ok"
    THEN AddSource(Assemble(file.entities), file.filename, JobId)
    ELSE << >>

RECURSIVE RecordsOfFiles(_)
RecordsOfFiles(fs) ==
    IF fs = << >> THEN << >> ELSE DocumentRecords(Head(fs)) \o RecordsOfFiles(Tail(fs))

\* the records of the groups from offset i on, group by group
RECURSIVE RecordsOfGroups(_)
RecordsOfGroups(i) ==
    IF i >= Len(files) THEN << >>
    ELSE process_file_group(group_files_at(i), JobId).records
            \o RecordsOfGroups(i + group_size)

\* the records accumulated with group_size 1: one call of process_file_group
\* per file
RECURSIVE SerialRecords(_)
SerialRecords(fs) ==
    IF fs = << >> THEN << >>
    ELSE process_file_group(<< Head(fs) >>, JobId).records \o SerialRecords(Tail(fs))

Failing(file) == file.kind \in {"save_error", "ai_error"}

\* C3: within a job detect_duplicates is called at most once, and only when
\* every group has been processed, on the records of all the groups
C3_DetectOnceAfterAllGroups ==
    /\ detect_calls <= 1
    /\ detect_calls = 1 =>
          /\ job_pc = "done"
          /\ next_file >= Len(files)
          /\ processed_files = Len(files)
          /\ detect_input = RecordsOfGroups(0)

\* a job of three groups has run detect_duplicates
C3_Witness ==
    /\ job_pc = "done"
    /\ status = "completed"
    /\ detect_calls = 1
    /\ group_size = 1
    /\ Len(files) = 3
    /\ \A k \in 1..3 : DocumentRecords(files[k]) # << >>

\* C4: a document whose saving or extraction raises is skipped alone: the
\* records accumulated are those of every other document processed so far, in
\* order, and the job is 'failed' only when an UPDATE of the job row raised
C4_FailureSkipsOneDocument ==
    /\ job_pc = "loop" =>
          all_records =
              RecordsOfFiles(SubSeq(files, 1, IF next_file < Len(files)
                                              THEN next_file ELSE Len(files)))
    /\ detect_calls = 1 => detect_input = RecordsOfFiles(files)
    /\ status = "failed" => store_failed
    /\ job_pc = "done" /\ ~ store_failed /\ RecordsOfFiles(files) # << >>
          => /\ status \in {"completed"}
             /\ total_records = Len(RecordsOfFiles(files))

\* a job whose first document failed has completed with the records of the
\* second document of that group and of the next group
C4_Witness ==
    /\ job_pc = "done"
    /\ status = "completed"
    /\ Len(files) = 3
    /\ group_size = 2
    /\ Failing(files[1])
    /\ DocumentRecords(files[2]) # << >>
    /\ Failing(files[3]) \/ DocumentRecords(files[3]) # << >>
    /\ total_records >= 2

\* C9: whatever the group_size, a job that ends without a failing UPDATE has
\* the records, in the order, with the flags, total_records and
\* duplicates_found of the job run with group_size 1
C9_GroupSizeImmaterial ==
    job_pc = "done" /\ ~ store_failed =>
        LET serial == SerialRecords(files)
        IN  IF serial = << >>
            THEN /\ all_records = << >>
                 /\ detect_calls = 0
                 /\ total_records = 0
                 /\ duplicates_found = 0
            ELSE /\ all_records = detect_duplicates(serial).records
                 /\ total_records = Len(serial)
                 /\ duplicates_found = detect_duplicates(serial).count

\* a job with groups of two files, a failing document and a duplicate found
C9_Witness ==
    /\ job_pc = "done"
    /\ ~ store_failed
    /\ group_size = 2
    /\ Len(files) = 3
    /\ Failing(files[1])
    /\ duplicates_found >= 1
    /\ total_records >= 2


\* ------------------------------------------------------------------------
\* Calls of get_duplicate_groups and resolve_duplicates (SpecGroups)
\* ------------------------------------------------------------------------

\* a batch of records with ids, as the record store hands them out
InitGroups ==
    /\ \E n \in 0..MaxBatch :
       \E ms \in [1..n -> BatchMobiles], fs \in [1..n -> BatchFlags] :
          records = [i \in 1..n |-> BatchRecord(i, ms[i], fs[i])]
    /\ entities = << >>
    /\ before = << >>
    /\ duplicate_count = -1
    /\ prev_count = -1
    /\ calls = 0
    /\ pc = "stored"
    /\ input = << >>
    /\ output = << >>
    /\ JobIdle

\* a call of get_duplicate_groups on the batch
GetGroups ==
    /\ pc = "stored"
    /\ before' = records
    /\ input' = << records >>
    /\ output' = get_duplicate_groups(records)
    /\ pc' = "grouped"
    /\ UNCHANGED << entities, records, duplicate_count, prev_count, calls, jobVars >>

\* what a call of resolve_duplicates leaves
ResolveReturns(result, keep_record_id) ==
    /\ before' = records
    /\ input' = << keep_record_id >>
    /\ output' = result.ok
    /\ records' = result.records
    /\ pc' = "resolved"
    /\ UNCHANGED << entities, duplicate_count, prev_count, calls, jobVars >>

\* a call of resolve_duplicates on the batch taken as one group, with the id
\* of a member or an id no record has
Resolve ==
    /\ pc = "stored"
    /\ \E keep_record_id \in 1..(MaxBatch + 1) :
          ResolveReturns(resolve_duplicates([records |-> records], keep_record_id),
                         keep_record_id)

NextGroups == GetGroups \/ Resolve

SpecGroups == InitGroups /\ [][NextGroups]_vars


\* ------------------------------------------------------------------------
\* Claims on the grouping (SpecDetect, SpecGroups)
\* ------------------------------------------------------------------------

\* the mobile with every non-digit character removed
Normalized(mobile) == SelectSeq(mobile, LAMBDA c : c \in Digits)

\* the participating records of the batch whose normalized mobile is that of
\* index i
SharingNormalized(batch, i) ==
    {j \in 1..Len(batch) :
        /\ batch[j].mobile # << >>
        /\ mobile_pattern_match(Normalized(batch[j].mobile))
        /\ Normalized(batch[j].mobile) = Normalized(batch[i].mobile)}

\* C11: the groups are those of the normalized mobile: after detect_duplicates,
\* of the participating records that share a mobile once the non-digit
\* characters are removed, the first has is_duplicate = false and every later
\* one is_duplicate = true, whatever their raw strings
C11_KeyedByNormalizedMobile ==
    pc = "detected" =>
        \A i \in 1..Len(before) :
            i \in SharingNormalized(before, i)
            /\ Cardinality(SharingNormalized(before, i)) >= 2
            => IF i = Min(SharingNormalized(before, i))
               THEN FlaggedFalse(records[i])
               ELSE FlaggedTrue(records[i])

\* the id handed to resolve_duplicates is that of a record of the group
KeepIsMember == \E i \in 1..Len(before) : before[i].id = input[1]

\* C12: resolve_duplicates with the id of a member returns true, leaves that
\* member with is_duplicate = false and every other member with is_duplicate =
\* true; with an empty group or an id no member has it returns false and
\* changes no flag
C12_ResolveKeepsOne ==
    pc = "resolved" =>
        /\ Len(records) = Len(before)
        /\ IF KeepIsMember
           THEN /\ output = TRUE
                /\ \A i \in 1..Len(before) :
                      IF before[i].id = input[1]
                      THEN FlaggedFalse(records[i])
                      ELSE FlaggedTrue(records[i])
           ELSE /\ output = FALSE
                /\ \A i \in 1..Len(before) : SameFlag(records[i], before[i])

\* a group of three resolved on its second record, which entered flagged,
\* while the first entered with no flag
C12_Witness ==
    /\ pc = "resolved"
    /\ output = TRUE
    /\ Len(before) = 3
    /\ input[1] = 2
    /\ FlaggedTrue(before[2])
    /\ FlaggedFalse(records[2])
    /\ "is_duplicate" \notin DOMAIN before[1]
    /\ FlaggedTrue(records[1])
    /\ FlaggedTrue(records[3])

\* the batch without its is_duplicate flags
Unflagged(batch) == [i \in 1..Len(batch) |-> Frame(batch[i])]

\* the indices on which detect_duplicates writes a flag
WrittenByDetect(batch) ==
    {i \in 1..Len(batch) :
        "is_duplicate" \in DOMAIN detect_duplicates(Unflagged(batch)).records[i]}

\* the records of the batch, in input order, that participate with this mobile
MembersOf(batch, mobile) ==
    SelectSeq(batch, LAMBDA r : r.mobile = mobile /\ _is_valid_mobile(r.mobile))

\* C13: get_duplicate_groups returns one group for every mobile that
\* detect_duplicates groups more than one record under and no other, each
\* with all its members in input order and their number as record_count, and
\* leaves every record as it was
C13_GroupsWithoutMarking ==
    pc = "grouped" =>
        /\ records = before
        /\ \A k \in 1..Len(output) :
              /\ output[k].records = MembersOf(before, output[k].mobile_number)
              /\ output[k].record_count = Len(output[k].records)
              /\ output[k].record_count > 1
              /\ \A l \in 1..Len(output) :
                    output[l].mobile_number = output[k].mobile_number => l = k
        /\ {before[i].mobile : i \in WrittenByDetect(before)}
              = {output[k].mobile_number : k \in 1..Len(output)}

\* a batch with a group of two, a participating record alone and a flagged
\* record has been grouped
C13_Witness ==
    /\ pc = "grouped"
    /\ Len(output) = 1
    /\ output[1].record_count = 2
    /\ Len(before) = 3
    /\ before[1].mobile = Mobile0499999999
    /\ before[2].mobile = Mobile0412345678
    /\ before[3].mobile = Mobile0412345678
    /\ FlaggedTrue(before[2])


\* ------------------------------------------------------------------------
\* The field validations on their own (SpecFields)
\* ------------------------------------------------------------------------

\* one field of a candidate record, as the document holds it
InitFields ==
    /\ \E field \in FieldNames :
       \E value \in FieldInputs(field) :
          input = [field |-> field, value |-> value]
    /\ output = << >>
    /\ entities = << >>
    /\ records = << >>
    /\ before = << >>
    /\ duplicate_count = -1
    /\ prev_count = -1
    /\ calls = 0
    /\ pc = "field"
    /\ JobIdle

\* a call of _clean_phone_number on a phone value
CleanPhone ==
    /\ pc = "field"
    /\ input.field \in {"mobile", "landline"}
    /\ output' = _clean_phone_number(input.value)
    /\ pc' = "phone_cleaned"
    /\ UNCHANGED << entities, records, before, duplicate_count, prev_count, calls, input,
                    jobVars >>

\* a call of _clean_and_validate_records on the candidate holding the value
CleanCandidate ==
    /\ pc = "field"
    /\ output' = _clean_and_validate_records(<< CandidateWith(input.field, input.value) >>)
    /\ pc' = "record_cleaned"
    /\ UNCHANGED << entities, records, before, duplicate_count, prev_count, calls, input,
                    jobVars >>

NextFields == CleanPhone \/ CleanCandidate

SpecFields == InitFields /\ [][NextFields]_vars

\* strip every non-digit character, keep the digits if exactly 10 remain
ExpectedPhone(s) ==
    LET digits == SelectSeq(s, LAMBDA c : c \in Digits)
    IN  IF Len(digits) = 10 THEN digits ELSE << >>

\* C14: _clean_phone_number returns the digits of its input when there are
\* exactly 10 and '' otherwise, so its output is '' or 10 digits
\* ("04-1234-5678" gives "0412345678"); the cleaning of a record applies the
\* same rule to mobile and to landline
C14_TenDigitsOrEmpty ==
    /\ pc = "phone_cleaned" =>
          /\ output = ExpectedPhone(input.value)
          /\ output = << >> \/ ExactlyTenDigits(output)
          /\ input.value = Phone04_1234_5678 => output = Mobile0412345678
    /\ pc = "record_cleaned" /\ input.field = "mobile" =>
          IF ExpectedPhone(input.value) = << >>
          THEN output = << >>
          ELSE Len(output) = 1 /\ output[1].mobile = ExpectedPhone(input.value)
    /\ pc = "record_cleaned" /\ input.field = "landline" =>
          Len(output) = 1 /\ output[1].landline = ExpectedPhone(input.value)

\* a padded phone value of 10 digits cleaned to its digits
C14_Witness ==
    /\ pc = "phone_cleaned"
    /\ input.field = "landline"
    /\ input.value = PhoneOf(10, "padded")
    /\ output = PhoneDigitsOf(10)


\* the value without the white space around it
Trimmed(s) == Strip(s)

\* C15: the address of a candidate is rejected, and the candidate with it,
\* when its trimmed length is below 15 or its first 10 characters after
\* trimming hold no digit; otherwise the record carries the trimmed address
\* unchanged ("123 Main Street Springfield" is kept, "Main Street" rejected)
C15_AddressGate ==
    pc = "record_cleaned" /\ input.field = "address" =>
        /\ IF \/ Len(Trimmed(input.value)) < 15
              \/ ~ \E k \in 1..10 : Trimmed(input.value)[k] \in Digits
           THEN output = << >>
           ELSE Len(output) = 1 /\ output[1].address = Trimmed(input.value)
        /\ input.value = Address123MainStreetSpringfield =>
              Len(output) = 1 /\ output[1].address = Address123MainStreetSpringfield
        /\ input.value = AddressMainStreet => output = << >>

\* a padded address of 15 characters with its digit at position 10 is kept,
\* trimmed
C15_Witness ==
    /\ pc = "record_cleaned"
    /\ input.field = "address"
    /\ input.value = Padded(AddressBody(MinAddressLen, AddressDigitPrefix))
    /\ Len(output) = 1
    /\ output[1].address = AddressBody(MinAddressLen, AddressDigitPrefix)

\* the email holds an '@' and a '.' after its last '@'
DotAfterLastAt(s) ==
    \E a \in 1..Len(s) :
        /\ s[a] = "@"
        /\ \A j \in (a + 1)..Len(s) : s[j] # "@"
        /\ \E k \in (a + 1)..Len(s) : s[k] = "."

\* C16: the record carries the email lowercased and trimmed when the email
\* holds an '@' and a '.' after its last '@', and the empty string for every
\* other email
C16_EmailGate ==
    pc = "record_cleaned" /\ input.field = "email" =>
        /\ Len(output) = 1
        /\ output[1].email =
              IF DotAfterLastAt(Trimmed(input.value))
              THEN Lower(Trimmed(input.value))
              ELSE << >>

\* a padded email with capitals is kept, lowercased and trimmed
C16_Witness ==
    /\ pc = "record_cleaned"
    /\ input.field = "email"
    /\ input.value = Padded(ValidEmail)
    /\ Len(output) = 1
    /\ output[1].email = Lower(ValidEmail)
    /\ output[1].email # ValidEmail


\* ------------------------------------------------------------------------
\* _parse_name on its own (SpecName)
\* ------------------------------------------------------------------------

InitName ==
    /\ input \in NameInputs
    /\ output = << >>
    /\ entities = << >>
    /\ records = << >>
    /\ before = << >>
    /\ duplicate_count = -1
    /\ prev_count = -1
    /\ calls = 0
    /\ pc = "name"
    /\ JobIdle

\* first_name, last_name = self._parse_name(name)
ParseName ==
    /\ pc = "name"
    /\ output' = _parse_name(input)
    /\ pc' = "parsed"
    /\ UNCHANGED << entities, records, before, duplicate_count, prev_count, calls,
                    input >>
    /\ UNCHANGED jobVars

NextName == ParseName

SpecName == InitName /\ [][NextName]_vars


\* ------------------------------------------------------------------------
\* Claims on the name parser
\* ------------------------------------------------------------------------

\* the number of Latin letters of s
LatinCount(s) == Cardinality({ k \in 1..Len(s) : s[k] \in LatinLetters })

NoDigitIn(s) == \A k \in 1..Len(s) : s[k] \notin Digits

\* the name after segment choice and leading-junk removal
WorkingNameOf(full_name) == WorkingName(Strip(full_name))

\* C17: parse returns ("", "") or a pair whose two names are non-empty, hold
\* no digit and whose first name has at least 2 Latin letters; a name whose
\* working name holds a digit ("123 Main Street") or has fewer than 2 tokens
\* is rejected
C17_PairOrRejected ==
    pc = "parsed" =>
        /\ \/ output = << << >>, << >> >>
           \/ /\ output[1] # << >>
              /\ output[2] # << >>
              /\ NoDigitIn(output[1])
              /\ NoDigitIn(output[2])
              /\ LatinCount(output[1]) >= 2
        /\ ~ NoDigitIn(WorkingNameOf(input)) => output = << << >>, << >> >>
        /\ Len(SplitWs(WorkingNameOf(input))) < 2 => output = << << >>, << >> >>
        /\ input = Name123MainStreet => output = << << >>, << >> >>

\* " \tJo Lee \n" parses into "Jo" and "Lee"
C17_Witness ==
    /\ pc = "parsed"
    /\ input = <<" ", "\t">> \o NameJoLee \o <<" ", "\n">>
    /\ output = << << "J", "o" >>, << "L", "e", "e" >> >>

\* the blacklisted address words and state abbreviations
BlacklistWords == { address_words[k] : k \in 1..Len(address_words) }

\* the whitespace-delimited words of the lowercased working name
LowerWords(full_name) == SplitWs(Lower(WorkingNameOf(full_name)))

HoldsBlacklistedWord(words) == \E k \in 1..Len(words) : words[k] \in BlacklistWords

\* C18: a name whose lowercased working name holds a blacklisted word as a
\* whole whitespace-delimited word, at the start, in the middle or at the
\* end, is rejected ("qld Pty Ltd"); a name that holds such a word only as
\* part of a longer token and that no other rule rejects is accepted
C18_BlacklistWholeWords ==
    pc = "parsed" =>
        /\ HoldsBlacklistedWord(LowerWords(input)) => output = << << >>, << >> >>
        /\ ( /\ ~ HoldsBlacklistedWord(LowerWords(input))
             /\ NoDigitIn(WorkingNameOf(input))
             /\ Len(LowerWords(input)) >= 2
             /\ LatinCount(LowerWords(input)[1]) >= 2 )
           => output # << << >>, << >> >>
        /\ input = NameQldPtyLtd => output = << << >>, << >> >>

\* "Jo Lee QLD" is rejected for its last word
C18_Witness ==
    /\ pc = "parsed"
    /\ input = NameJoLee \o << " ", "Q", "L", "D" >>
    /\ output = << << >>, << >> >>

\* the key (number of Latin letters, then length) of a is at most that of b
KeyAtMost(a, b) ==
    \/ LatinCount(a) < LatinCount(b)
    \/ LatinCount(a) = LatinCount(b) /\ Len(a) <= Len(b)

\* the segments of the name
SegmentsOf(full_name) == SplitSeparators(Strip(full_name))

\* with separators in the name, the result is that of a segment no other
\* segment exceeds in (number of Latin letters, then length)
WorksOnBestSegment ==
    pc = "parsed" /\ Len(SegmentsOf(input)) > 1 =>
        \E i \in 1..Len(SegmentsOf(input)) :
            /\ \A j \in 1..Len(SegmentsOf(input)) :
                  KeyAtMost(SegmentsOf(input)[j], SegmentsOf(input)[i])
            /\ output = _parse_name(SegmentsOf(input)[i])

\* C19 as stated: with separators in the name parse works on the segment that
\* maximizes (number of Latin letters, then length), and "Smith, John A"
\* gives ("John", "A Smith")
C19_SmithJohnASmith ==
    /\ WorksOnBestSegment
    /\ pc = "parsed" /\ input = NameSmithJohnA =>
          output = << << "J", "o", "h", "n" >>, << "A", " ", "S", "m", "i", "t", "h" >> >>

\* C19: with separators in the name parse works on the segment that maximizes
\* (number of Latin letters, then length), and "Smith, John A" gives
\* ("John", "A"): the segment "John A" has as many Latin letters as "Smith"
\* and is longer
C19_BestSegmentParsed ==
    /\ WorksOnBestSegment
    /\ pc = "parsed" /\ input = NameSmithJohnA =>
          output = << << "J", "o", "h", "n" >>, << "A" >> >>

\* "Smith, John A" has been parsed into "John" and "A"
C19_Witness ==
    /\ pc = "parsed"
    /\ input = NameSmithJohnA
    /\ Len(SegmentsOf(input)) = 2
    /\ output = << << "J", "o", "h", "n" >>, << "A" >> >>


\* ------------------------------------------------------------------------
\* _calculate_similarity on its own (SpecSimilarity)
\* ------------------------------------------------------------------------

InitSimilarity ==
    /\ \E record1 \in SimilarityFirstRecords :
       \E record2 \in SimilarityRecords :
          input = << record1, record2 >>
    /\ output = << >>
    /\ entities = << >>
    /\ records = << >>
    /\ before = << >>
    /\ duplicate_count = -1
    /\ prev_count = -1
    /\ calls = 0
    /\ pc = "pair"
    /\ JobIdle

\* similarity_score = self._calculate_similarity(record, other_record)
CalculateSimilarity ==
    /\ pc = "pair"
    /\ output' = _calculate_similarity(input[1], input[2])
    /\ pc' = "compared"
    /\ UNCHANGED << entities, records, before, duplicate_count, prev_count, calls,
                    input >>
    /\ UNCHANGED jobVars

\* the same call with the two records exchanged
CalculateSimilarityReversed ==
    /\ pc = "pair"
    /\ output' = _calculate_similarity(input[2], input[1])
    /\ pc' = "compared_reversed"
    /\ UNCHANGED << entities, records, before, duplicate_count, prev_count, calls,
                    input >>
    /\ UNCHANGED jobVars

NextSimilarity == CalculateSimilarity \/ CalculateSimilarityReversed

SpecSimilarity == InitSimilarity /\ [][NextSimilarity]_vars


\* ------------------------------------------------------------------------
\* Claims on the similarity
\* ------------------------------------------------------------------------

\* the two records of the call, in the order of the call
FirstRecord == IF pc = "compared_reversed" THEN input[2] ELSE input[1]

SecondRecord == IF pc = "compared_reversed" THEN input[1] ELSE input[2]

\* the name (first and last, lowercased, trimmed) and the lowercased,
\* trimmed address of a record, "" when the record has none
NameIn(r) ==
    Lower(Trimmed((IF "first_name" \in DOMAIN r THEN r.first_name ELSE << >>)
                  \o << " " >>
                  \o (IF "last_name" \in DOMAIN r THEN r.last_name ELSE << >>)))

FieldIn(r, field) == IF field \in DOMAIN r THEN r[field] ELSE << >>

AddressIn(r) == Lower(Trimmed(FieldIn(r, "address")))

EmailIn(r) == Lower(Trimmed(FieldIn(r, "email")))

\* the field is present on both sides
BothHave(a, b) == a # << >> /\ b # << >>

\* the whitespace-delimited tokens of s
TokenSet(s) == { t \in { SubSeq(s, i, j) : i \in 1..Len(s), j \in 1..Len(s) } :
                   /\ t # << >>
                   /\ \A k \in 1..Len(t) : t[k] \notin Whitespace
                   /\ Contains(<< " " >> \o s \o << " " >>, << " " >> \o t \o << " " >>) }

Common(a, b) == Cardinality(TokenSet(a) \cap TokenSet(b))

Either(a, b) == Cardinality(TokenSet(a) \cup TokenSet(b))

\* ten times the sum of the weights of the fields present on both sides
TenfoldWeights(a, b) ==
      (IF BothHave(FieldIn(a, "mobile"), FieldIn(b, "mobile")) THEN 4 ELSE 0)
    + (IF BothHave(NameIn(a), NameIn(b)) THEN 3 ELSE 0)
    + (IF BothHave(AddressIn(a), AddressIn(b)) THEN 2 ELSE 0)
    + (IF BothHave(EmailIn(a), EmailIn(b)) THEN 1 ELSE 0)

\* the denominators of the two Jaccard similarities, 1 for a field not compared
NameDen(a, b) == IF BothHave(NameIn(a), NameIn(b)) THEN Either(NameIn(a), NameIn(b)) ELSE 1

AddressDen(a, b) ==
    IF BothHave(AddressIn(a), AddressIn(b)) THEN Either(AddressIn(a), AddressIn(b)) ELSE 1

\* ten times the sum of the weights earned, times NameDen and AddressDen
TenfoldEarned(a, b) ==
      (IF BothHave(FieldIn(a, "mobile"), FieldIn(b, "mobile"))
          /\ FieldIn(a, "mobile") = FieldIn(b, "mobile")
       THEN 4 * NameDen(a, b) * AddressDen(a, b) ELSE 0)
    + (IF BothHave(NameIn(a), NameIn(b))
       THEN 3 * Common(NameIn(a), NameIn(b)) * AddressDen(a, b) ELSE 0)
    + (IF BothHave(AddressIn(a), AddressIn(b))
       THEN 2 * Common(AddressIn(a), AddressIn(b)) * NameDen(a, b) ELSE 0)
    + (IF BothHave(EmailIn(a), EmailIn(b)) /\ EmailIn(a) = EmailIn(b)
       THEN 1 * NameDen(a, b) * AddressDen(a, b) ELSE 0)

\* the two records have the same mobile and the same name, addresses without
\* a common token and no email
SevenNinthsPair(a, b) ==
    /\ BothHave(FieldIn(a, "mobile"), FieldIn(b, "mobile"))
    /\ FieldIn(a, "mobile") = FieldIn(b, "mobile")
    /\ BothHave(NameIn(a), NameIn(b))
    /\ TokenSet(NameIn(a)) = TokenSet(NameIn(b))
    /\ BothHave(AddressIn(a), AddressIn(b))
    /\ Common(AddressIn(a), AddressIn(b)) = 0
    /\ ~ BothHave(EmailIn(a), EmailIn(b))

\* C20: the similarity is the sum of the weights earned (mobile 0.4 on exact
\* match, name 0.3 times the Jaccard similarity, address 0.2 times the Jaccard
\* similarity, email 0.1 on exact match) divided by the sum of the weights of
\* the fields present on both sides, 0 when no field is comparable, always
\* between 0 and 1, and 0.7/0.9 for two records with the same mobile and
\* name, addresses without a common token and no email
C20_WeightedNormalized ==
    pc \in { "compared", "compared_reversed" } =>
        /\ output[2] > 0
        /\ 0 <= output[1]
        /\ output[1] <= output[2]
        /\ TenfoldWeights(FirstRecord, SecondRecord) = 0 => output[1] = 0
        /\ TenfoldWeights(FirstRecord, SecondRecord) > 0 =>
              output[1] * TenfoldWeights(FirstRecord, SecondRecord)
                        * NameDen(FirstRecord, SecondRecord)
                        * AddressDen(FirstRecord, SecondRecord)
                 = output[2] * TenfoldEarned(FirstRecord, SecondRecord)
        /\ SevenNinthsPair(FirstRecord, SecondRecord) => output[1] * 9 = output[2] * 7

\* two records with the same mobile, the names "Jo Lee" and "lee jo", the
\* addresses "1 Elm St" and "9 Oak Av" and no email on the second: 7/9
C20_Witness ==
    /\ pc = "compared"
    /\ SevenNinthsPair(input[1], input[2])
    /\ input[1].first_name = << "J", "o" >>
    /\ input[2].first_name = << "l", "e", "e" >>
    /\ "email" \in DOMAIN input[1]
    /\ "email" \notin DOMAIN input[2]
    /\ output = << 7, 9 >>


\* ------------------------------------------------------------------------
\* _string_similarity on its own (SpecStrings)
\* ------------------------------------------------------------------------

InitStrings ==
    /\ \E str1 \in SimilarityStrings :
       \E str2 \in SimilarityStrings :
          input = << str1, str2 >>
    /\ output = << >>
    /\ entities = << >>
    /\ records = << >>
    /\ before = << >>
    /\ duplicate_count = -1
    /\ prev_count = -1
    /\ calls = 0
    /\ pc = "strings"
    /\ JobIdle

\* name_similarity = self._string_similarity(name1, name2)
StringSimilarity ==
    /\ pc = "strings"
    /\ output' = _string_similarity(input[1], input[2])
    /\ pc' = "similarity"
    /\ UNCHANGED << entities, records, before, duplicate_count, prev_count, calls,
                    input >>
    /\ UNCHANGED jobVars

NextStrings == StringSimilarity

SpecStrings == InitStrings /\ [][NextStrings]_vars

\* C21: the similarity of two strings is the Jaccard similarity of their
\* whitespace-token sets, 1.0 when both strings are empty and 0.0 when exactly
\* one is empty
C21_JaccardOfTokens ==
    pc = "similarity" =>
        /\ input[1] = << >> /\ input[2] = << >> => output = << 1, 1 >>
        /\ (input[1] = << >>) # (input[2] = << >>) => output = << 0, 1 >>
        /\ TokenSet(input[1]) # {} /\ TokenSet(input[2]) # {} =>
              output[1] * Either(input[1], input[2])
                 = output[2] * Common(input[1], input[2])


\* ------------------------------------------------------------------------
\* get_similar_records on its own (SpecSimilar)
\* ------------------------------------------------------------------------

\* the record is one of the pool, at position `position`
InitSimilar ==
    /\ \E pool \in Pools :
       \E position \in 1..Len(pool) :
       \E threshold \in Thresholds :
          input = [record |-> pool[position], all_records |-> pool,
                   threshold |-> threshold, position |-> position]
    /\ output = << >>
    /\ entities = << >>
    /\ records = << >>
    /\ before = << >>
    /\ duplicate_count = -1
    /\ prev_count = -1
    /\ calls = 0
    /\ pc = "pool"
    /\ JobIdle

GetSimilarRecords ==
    /\ pc = "pool"
    /\ output' = get_similar_records(input.record, input.all_records, input.threshold)
    /\ pc' = "similar"
    /\ UNCHANGED << entities, records, before, duplicate_count, prev_count, calls,
                    input >>
    /\ UNCHANGED jobVars

NextSimilar == GetSimilarRecords

SpecSimilar == InitSimilar /\ [][NextSimilar]_vars

\* ------------------------------------------------------------------------
\* Claims on get_similar_records
\* ------------------------------------------------------------------------

\* the positions of the records of the pool other than the given one whose
\* similarity to it reaches the threshold
SimilarOthers ==
    { j \in 1..Len(input.all_records) :
        /\ j # input.position
        /\ FracGE(_calculate_similarity(input.record, input.all_records[j]),
                  input.threshold) }

\* how often record r occurs among the entries / at the positions
TimesReturned(r) == Cardinality({ i \in 1..Len(output) : output[i].record = r })

TimesExpected(r) == Cardinality({ j \in SimilarOthers : input.all_records[j] = r })

\* C22: the entries returned are exactly the records of the pool other than
\* the given record whose similarity to it is at least the threshold, each
\* with its score, in the order of non-increasing score
C22_SimilarOthersByScore ==
    pc = "similar" =>
        /\ Len(output) = Cardinality(SimilarOthers)
        /\ \A j \in 1..Len(input.all_records) :
              TimesReturned(input.all_records[j]) = TimesExpected(input.all_records[j])
        /\ \A i \in 1..Len(output) :
              output[i].similarity_score
                 = _calculate_similarity(input.record, output[i].record)
        /\ \A i \in 1..Len(output) : \A j \in i..Len(output) :
              FracGE(output[i].similarity_score, output[j].similarity_score)


\* ------------------------------------------------------------------------
\* _clean_text on its own (SpecText)
\* ------------------------------------------------------------------------

InitText ==
    /\ input \in TextInputs
    /\ output = << >>
    /\ entities = << >>
    /\ records = << >>
    /\ before = << >>
    /\ duplicate_count = -1
    /\ prev_count = -1
    /\ calls = 0
    /\ pc = "text"
    /\ JobIdle

\* cleaned_value = self._clean_text(entity.mention_text)
CleanText ==
    /\ pc = "text"
    /\ output' = _clean_text(input)
    /\ pc' = "cleaned"
    /\ UNCHANGED << entities, records, before, duplicate_count, prev_count, calls,
                    input >>
    /\ UNCHANGED jobVars

NextText == CleanText

SpecText == InitText /\ [][NextText]_vars

\* the letters and digits among the characters of the texts
Alphanumeric == LatinLetters \cup Digits \cup {"alpha", "e_acute", "cjk"}

\* C23: the normalized text holds only alphanumeric characters, single spaces
\* and the characters - . , @ ( ) /, has no white space at its ends and no two
\* white-space characters in a row; an empty or null text gives the empty
\* string
C23_OnlyAllowedCharacters ==
    pc = "cleaned" =>
        /\ \A k \in 1..Len(output) :
              output[k] \in Alphanumeric \cup {" ", "-", ".", ",", "@", "(", ")", "/"}
        /\ output # << >> =>
              output[1] \notin Whitespace /\ output[Len(output)] \notin Whitespace
        /\ \A k \in 1..(Len(output) - 1) :
              ~ (output[k] \in Whitespace /\ output[k + 1] \in Whitespace)
        /\ input \in { << >>, << "None" >> } => output = << >>


\* ------------------------------------------------------------------------
\* Claims on the job row
\* ------------------------------------------------------------------------

\* C24: when process_files_background has returned, the job is in status
\* 'completed' or 'failed' unless it was cancelled, and never still
\* 'processing', also when every document failed or no record was extracted
C24_NotLeftProcessing ==
    job_pc = "done" => status \in {"completed", "failed", "cancelled"}


\* C25: once cancel_processing_job has set the status to 'cancelled', no
\* later step of process_files_background changes it
C25_CancelledStays == [][status = "cancelled" => status' = "cancelled"]_vars


\* C26: processed_files never decreases and never exceeds total_files, and
\* once the last group is done it equals total_files, whatever the group_size
\* and whether or not documents failed
C26_ProcessedFilesBounded ==
    [][ /\ processed_files' >= processed_files
        /\ processed_files' <= total_files'
        /\ total_files' = Len(files')
        /\ next_file' >= Len(files') => processed_files' = total_files' ]_vars

\* three files, the first of which failed, done in groups of two: the last
\* group is the shorter one and all three files are counted
C26_Witness ==
    /\ job_pc = "loop"
    /\ Len(files) = 3
    /\ group_size = 2
    /\ Failing(files[1])
    /\ next_file >= Len(files)
    /\ processed_files = 3


\* ------------------------------------------------------------------------
\* A batch under review: detect_duplicates and resolve_duplicates on the
\* groups of get_duplicate_groups, in any order (SpecReview)
\* ------------------------------------------------------------------------

\* the mobiles of the batch under review
ReviewMobiles ==
    { << "0", "4", "1", "2", "3", "4", "5", "6", "7", "8" >>,
      << "0", "4", "-", "1", "2", "3", "4", "-", "5", "6", "7", "8" >>,
      << "0", "4", "9", "9", "9", "9", "9", "9", "9", "9" >> }

\* a batch of records with ids, as the record store hands them out, new
\* records with is_duplicate = false; output: the mobiles of the groups
\* resolved so far
InitReview ==
    /\ \E n \in 0..(MaxBatch + 1) :
       \E ms \in [1..n -> ReviewMobiles] :
          records = [i \in 1..n |-> BatchRecord(i, ms[i], "false")]
    /\ entities = << >>
    /\ before = << >>
    /\ duplicate_count = -1
    /\ prev_count = -1
    /\ calls = 0
    /\ pc = "review"
    /\ input = << >>
    /\ output = {}
    /\ JobIdle

\* a call of detect_duplicates on the batch
DetectInReview ==
    /\ pc \in {"review", "reviewed"}
    /\ before' = records
    /\ records' = detect_duplicates(records).records
    /\ duplicate_count' = detect_duplicates(records).count
    /\ input' = << >>
    /\ pc' = "reviewed"
    /\ UNCHANGED << entities, prev_count, calls, output, jobVars >>

\* what resolve_duplicates on a group of the batch leaves
ResolveGroupReturns(group, result, keep_record_id) ==
    /\ before' = records
    /\ records' = IF result.ok THEN SharedWith(records, result.records) ELSE records
    /\ output' = IF result.ok THEN output \cup { group.mobile_number } ELSE output
    /\ input' = << keep_record_id >>
    /\ UNCHANGED << entities, duplicate_count, prev_count, calls, pc, jobVars >>

\* a call of resolve_duplicates on one of the groups get_duplicate_groups
\* returns, with the id of any record of the batch or an id no record has
ResolveGroup ==
    /\ pc \in {"review", "reviewed"}
    /\ \E k \in 1..Len(get_duplicate_groups(records)) :
       \E keep_record_id \in 1..(MaxBatch + 2) :
          ResolveGroupReturns(get_duplicate_groups(records)[k],
                              resolve_duplicates(get_duplicate_groups(records)[k],
                                                 keep_record_id),
                              keep_record_id)

NextReview == DetectInReview \/ ResolveGroup

SpecReview == InitReview /\ [][NextReview]_vars

\* the records that belong to the duplicate group of index i: the
\* participating records with its normalized mobile
GroupOf(i) == SharingNormalized(records, i)

\* the group of index i has been written: detect_duplicates ran, or the group
\* was resolved
GroupSettled(i) ==
    \/ pc = "reviewed"
    \/ \E mobile \in output : Normalized(mobile) = Normalized(records[i].mobile)

\* C27: on a batch with distinct ids, once detect_duplicates has run or the
\* group has been resolved, every duplicate group of more than one record has
\* exactly one member with is_duplicate = false
C27_OneCanonicalPerGroup ==
    \A i \in 1..Len(records) :
        i \in GroupOf(i) /\ Cardinality(GroupOf(i)) > 1 /\ GroupSettled(i) =>
            Cardinality({ j \in GroupOf(i) : FlaggedFalse(records[j]) }) = 1


\* ------------------------------------------------------------------------
\* Claims on the count of detect_duplicates (SpecDetect)
\* ------------------------------------------------------------------------

\* the sum of record_count - 1 over the groups
RECURSIVE SumOfSurplus(_)
SumOfSurplus(groups) ==
    IF groups = << >> THEN 0
    ELSE (Head(groups).record_count - 1) + SumOfSurplus(Tail(groups))

\* C28: the count detect_duplicates returns is the sum of record_count - 1
\* over the groups get_duplicate_groups returns on the same batch, and is
\* smaller than the number of records of a batch that is not empty
C28_CountIsSurplusOfGroups ==
    pc = "detected" =>
        /\ duplicate_count = SumOfSurplus(get_duplicate_groups(before))
        /\ duplicate_count = SumOfSurplus(get_duplicate_groups(records))
        /\ before # << >> => duplicate_count < Len(before)

\* three records with one mobile: one group of three, count 2
C28_Witness ==
    /\ pc = "detected"
    /\ Len(before) = 3
    /\ Len(get_duplicate_groups(before)) = 1
    /\ get_duplicate_groups(before)[1].record_count = 3
    /\ duplicate_count = 2


\* ------------------------------------------------------------------------
\* RecordService.resolve_duplicates on the stored rows (SpecStore)
\* ------------------------------------------------------------------------

\* records: the table records; entities: the table duplicate_groups;
\* input: the arguments of the last call; output: what it returned
InitStore ==
    /\ \E n \in 0..MaxRows :
       \E js \in [1..n -> RowJobs], ms \in [1..n -> RowMobiles], fs \in [1..n -> BOOLEAN] :
          records = [i \in 1..n |->
                        [id |-> i, job_id |-> js[i], mobile |-> ms[i], is_duplicate |-> fs[i]]]
    /\ entities = StoredGroups
    /\ before = << >>
    /\ duplicate_count = -1
    /\ prev_count = -1
    /\ calls = 0
    /\ pc = "stored"
    /\ input = << >>
    /\ output = << >>
    /\ JobIdle

\* what a call of RecordService.resolve_duplicates leaves
ResolveStoredReturns(result, duplicate_group_id, keep_record_id) ==
    /\ before' = records
    /\ records' = result.db.records
    /\ entities' = result.db.duplicate_groups
    /\ input' = [duplicate_group_id |-> duplicate_group_id, keep_record_id |-> keep_record_id]
    /\ output' = << result.returned >>
    /\ pc' = "resolved"
    /\ UNCHANGED << duplicate_count, prev_count, calls, jobVars >>

\* POST /duplicates/resolve: a call with the id of a group or of none and the
\* id of a row or of none
ResolveStored ==
    /\ pc \in {"stored", "resolved"}
    /\ \E duplicate_group_id \in 1..(Len(StoredGroups) + 1), keep_record_id \in 1..(MaxRows + 1) :
          ResolveStoredReturns(
              RecordService_resolve_duplicates([records |-> records, duplicate_groups |-> entities],
                                               duplicate_group_id, keep_record_id),
              duplicate_group_id, keep_record_id)

NextStore == ResolveStored

SpecStore == InitStore /\ [][NextStore]_vars

\* the rows of records with the job_id and the mobile of the group
RowsOfGroup(group) ==
    {i \in 1..Len(records) :
        records[i].job_id = group.job_id /\ records[i].mobile = group.mobile_number}

\* the group of the last call
ResolvedGroup == RowsWithId(entities, input.duplicate_group_id)[1]

\* C29: after a call of RecordService.resolve_duplicates that returned True,
\* keep_record_id is the id of a row of the group and that row is the only row
\* of the group with is_duplicate = false
C29_KeptIsOnlyCanonical ==
    (pc = "resolved" /\ output = << TRUE >>) =>
        /\ \E i \in RowsOfGroup(ResolvedGroup) : records[i].id = input.keep_record_id
        /\ \A i \in RowsOfGroup(ResolvedGroup) :
              records[i].is_duplicate = FALSE <=> records[i].id = input.keep_record_id


\* ------------------------------------------------------------------------
\* Claims on the temporary files (Spec)
\* ------------------------------------------------------------------------

\* C30: when process_file_group has returned, no temporary file that
\* save_uploaded_file created during the call is on disk, the files of the
\* documents whose processing raised included
C30_TempFilesRemoved ==
    job_pc \in {"loop", "done"} => temp_files = {}

====
